---- MODULE Spec2Model ----
(***************************************************************************)
(* Model of whale-transaction-monitor's ingestion core:                    *)
(*   - the Rate Budget Gateway  (src/utils/alchemy_rpc.py,                 *)
(*     AlchemyRateLimiter),                                                *)
(*   - the block pollers        (src/chains/bitcoin_alchemy.py,            *)
(*     tron_alchemy.py, polygon.py),                                       *)
(*   - the Solana signature poller (src/chains/solana_api.py).             *)
(* Each part has its own specification over the shared variable tuple;     *)
(* the variables of the other parts stay at their initial values.          *)
(***************************************************************************)
EXTENDS Integers, Sequences, FiniteSets, TLC

(***************************************************************************)
(* Bounds and scaled-down configuration.                                   *)
(***************************************************************************)
\* AlchemyRateLimiter(max_rps=..., monthly_cu_budget=...) scaled down.
max_rps == 1
monthly_budget == 2
\* Largest cu_cost a caller passes; costs range over 0..MaxCost
\* (the Solana fallback call passes cu_cost=0).
MaxCost == 1
\* Ticks per second: the window length 1.0 s is TicksPerSec ticks.
TicksPerSec == 2

\* Threads that call wait_if_needed concurrently: two of the poller threads,
\* the block poller of the behaviour ("poller") and the Solana poller.
Callers == {"poller", "solana"}
Costs == 0..MaxCost
\* Python's None where the other values are numbers (an unset cursor, a
\* failed request).
None == -1

\* Highest block height the provider reports as tip.
MaxTip == 3
\* Highest tip reported to the poller whose requests go through the Gateway.
MaxGatedTip == 1
\* Cap on the length of the recorded event history.
MaxEvents == 2

\* The pollers that keep a block-height cursor.
Chains == {"bitcoin", "tron", "polygon"}
Heights == 0..MaxTip

\* Signatures are opaque strings; here the numbers 1..MaxSig.
MaxSig == 3
\* Length of a getSignaturesForAddress page (limit=50, scaled down).
MaxPage == 3
\* Largest amount of an output, a log or a call value.
MaxValue == 3
\* Largest asset price.
MaxPrice == 2
\* Largest USD threshold.
MaxUsd == 4
\* Most outputs of a block, and most call values of a transaction info.
MaxOuts == 2
\* Most Transfer logs of a transaction info.
MaxLogs == 1
\* Most entries of parsed_cache (500 in the source), scaled down.
PARSED_CACHE_MAX == 2
\* Longest reasoning kept in a row: reasoning[:1000], scaled down.
ReasoningLimit == 2
\* Latest time of the clock.
MaxNow == 1
\* Most events of one cycle of the Solana poller.
MaxTransfers == 2
\* limit=50 of the page request of a cycle, scaled down, where the provider
\* has a history longer than a page.
PageLimit == 2
\* The monitored mints, in the order _active_tokens() yields them.
Mints == <<"SOL", "JTO">>
Sigs == 1..MaxSig

VARIABLES
  \* ---- AlchemyRateLimiter -------------------------------------------
  cu_used,              \* self.cu_used
  requests_in_window,   \* self._requests_in_window
  window_elapsed,       \* time.time() - self._window_start, saturated at 1.0 s
  recent,               \* history, kept by RecordRequestSeq and TickSeq only:
                        \* recent[a] = requests recorded a ticks ago
  gpc,                  \* each caller's position inside wait_if_needed
  gcost,                \* each caller's cu_cost argument
  refusal,              \* history: the gate that last refused the caller in this call
  \* ---- block pollers (bitcoin_alchemy, tron_alchemy, polygon) --------
  chain,                \* which poller this behaviour runs
  cursor,               \* _last_seen_height / _last_seen_block / last_block
  ppc,                  \* the poller's position in its polling function
  tip,                  \* current_height / current_block / tip of this cycle
  h,                    \* loop variable of the catch-up loop
  shutdown_flag,        \* config.settings.shutdown_flag.is_set()
  fetched,              \* history: heights whose content was requested
  cycle_fetched,        \* history: heights requested in this cycle, in order
  emitted,              \* history: block heights of the events handed to handle_event
  seeded,               \* history: the height the cursor was seeded to
  raised,               \* history: an exception reached the except clause of this cycle
  configured,           \* get_alchemy_rpc(chain) returns an endpoint
  \* ---- Solana poller (solana_api) -----------------------------------
  sol_cursor,           \* solana_last_processed_signature, per mint
  spc,                  \* the poller's position
  mint_i,               \* index of the mint the for loop of line 89 is at
  last_sig,             \* local last_sig of this iteration
  sig_infos,            \* local sig_infos (newest first)
  new_signatures,       \* local new_signatures
  sig_i,                \* index of the for loop of line 122
  processed,            \* history: signatures the loop of line 122 handled, in order
  results,              \* local results: <<mint, signature>> of each event
  units_after_stop,     \* history: signatures/mints started after shutdown_flag was set
  \* ---- decoders (_process_block, _process_block_txinfo) -------------
  usd_threshold,        \* GLOBAL_USD_THRESHOLD
  btc_usd,              \* btc_usd = _btc_price()
  vout,                 \* the values of the outputs the loops of lines 44-49 visit
  out_i,                \* position of those loops
  btc_events,           \* history: the events _process_block handed to handle_event
  trx_price,            \* trx_price = _trx_price()
  tron_logs,            \* amounts of the Transfer logs of a transaction info
  call_values,          \* callValue of the entries of its internal transactions
  log_i,                \* position of the loop over the logs
  call_i,               \* position of the loops over the call values
  tron_events,          \* history: the events handed to handle_event
  found,                \* local found
  \* ---- Provider Client (_rpc_call, _http_call) ----------------------
  fn,                   \* the client function this behaviour calls
  resp,                 \* what requests.post did in the last call
  ret,                  \* what the last call returned
  \* ---- fetch_solana_transaction (alchemy_rpc) ------------------------
  rpc_urls,             \* which of get_alchemy_rpc('solana') and
                        \* _CHAIN_FALLBACK_MAP.get('solana') give an endpoint
  ftx_pc,               \* position inside fetch_solana_transaction
  ftx_calls,            \* history: <<endpoint, result>> of each _rpc_call of this call
  ftx_ret,              \* what the last call returned
  \* ---- supabase_writer and the event loop of the Solana poller ------
  rows,                 \* the rows of the table whale_transactions
  client,               \* _supabase_client: "unset" (None) or "ready"
  now,                  \* datetime.now(), in seconds
  transfers,            \* `transfers` of solana_api line 208: each event with
                        \* the classification_data it is stored with
  ev_i,                 \* position of the loop of solana_api line 211
  store_out,            \* what store_transaction did in the last iteration
  last_ok,              \* history: per hash, the row of the latest call that returned True
  \* ---- print_new_solana_transfers: the backoff of the interval wait --
  backoff_multiplier,   \* local backoff_multiplier
  bpc,                  \* position: "cycle" (line 206) or "wait" (line 288)
  cycle_resps,          \* history: the provider's answer to the signature request
                        \* of each mint in the last cycle
  cycle_exc,            \* history: the text of the exception that reached line 280
  wait_timeout,         \* history: the timeout of the last interval wait
  \* ---- parsed_cache (solana_api) -----------------------------------
  parsed_cache,         \* parsed_cache: its <<key, value>> items in insertion order
  cache_sig,            \* history: the signature the last iteration handled
  cache_inserted,       \* history: the last iteration inserted its tx_data
  cache_evicted,        \* history: the keys the last iteration deleted
  \* ---- initialize_baseline (solana_api) ----------------------------
  bl_pc,                \* position inside initialize_baseline
  attempt,              \* loop variable of line 51
  pending,              \* local pending
  still_pending,        \* local still_pending
  bl_i,                 \* position of the loop of line 53 in pending
  bl_fetches,           \* history: signature fetches made for each mint
  bl_assigned,          \* history: mints whose cursor entry was written
  \* ---- one caller's back-to-back calls of wait_if_needed ------------
  admissions,           \* history: calls admitted so far, counted up to BackToBack
  since_first,          \* history: ticks from the first admission to the last counted
  \* ---- AlchemyRateLimiter._lock and the threads around it -----------
  lock,                 \* self._lock: "free" or the thread that holds it
  lpc,                  \* each thread's position in _rpc_call
  reg,                  \* each thread's value read for `self.cu_used += cu_cost`
  returned_cost,        \* history: sum of the cu_cost of the calls of
                        \* wait_if_needed that returned
  req_result,           \* history: how each thread's last request ended
  \* ---- histories of the pollers' requests --------------------------
  failed,               \* history: block heights whose last fetch failed
  sig_top,              \* the provider's signature history of each mint: the
                        \* signatures 1..sig_top[mint], the highest the newest
  seen,                 \* history: per mint, the signatures processed so far
  \* ---- _map_event_to_whale_row: the address columns -----------------
  addr_in,              \* the event and classification_data of the call
  addr_row              \* the address columns of the row returned

gvars == <<cu_used, requests_in_window, window_elapsed, recent, gpc, gcost, refusal>>
pvars == <<chain, cursor, ppc, tip, h, shutdown_flag, fetched, cycle_fetched, emitted, seeded,
          raised, configured>>

svars == <<sol_cursor, spc, mint_i, last_sig, sig_infos, new_signatures, sig_i,
           processed, results, units_after_stop>>

bvars == <<usd_threshold, btc_usd, vout, out_i, btc_events>>
tvars == <<trx_price, tron_logs, call_values, log_i, call_i, tron_events, found>>
dvars == <<bvars, tvars>>
cvars == <<fn, resp, ret>>
fvars == <<rpc_urls, ftx_pc, ftx_calls, ftx_ret>>
wvars == <<rows, client, now, transfers, ev_i, store_out, last_ok>>
kvars == <<backoff_multiplier, bpc, cycle_resps, cycle_exc, wait_timeout>>
qvars == <<parsed_cache, cache_sig, cache_inserted, cache_evicted>>
ivars == <<bl_pc, attempt, pending, still_pending, bl_i, bl_fetches, bl_assigned>>
avars == <<admissions, since_first>>
lvars == <<lock, lpc, reg, returned_cost, req_result>>
nvars == <<failed>>
yvars == <<sig_top, seen>>
mvars == <<addr_in, addr_row>>
xvars == <<fvars, wvars, kvars, qvars, ivars, avars, lvars, nvars, yvars, mvars>>
\* What the steps of one part leave alone among the other parts' variables.
f_rest == <<pvars, svars, dvars, cvars, wvars, kvars, qvars, ivars, avars, lvars, nvars, yvars, mvars>>
w_rest == <<gvars, pvars, svars, dvars, cvars, fvars, kvars, qvars, ivars, avars, lvars, nvars, yvars, mvars>>
k_rest == <<gvars, pvars, svars, dvars, cvars, fvars, wvars, qvars, ivars, avars, lvars, nvars, yvars, mvars>>
q_rest == <<gvars, pvars, svars, dvars, cvars, fvars, wvars, kvars, ivars, avars, lvars, nvars, yvars, mvars>>
i_rest == <<pvars, dvars, cvars, fvars, wvars, kvars, qvars, avars, lvars, nvars, yvars, mvars>>
a_rest == <<pvars, svars, dvars, cvars, fvars, wvars, kvars, qvars, ivars, lvars, nvars, yvars, mvars>>
l_rest == <<pvars, svars, dvars, cvars, fvars, wvars, kvars, qvars, ivars, avars, nvars, yvars, mvars>>
n_rest == <<fvars, wvars, kvars, qvars, ivars, avars, lvars, yvars, mvars>>
y_rest == <<gvars, pvars, dvars, cvars, fvars, wvars, kvars, qvars, ivars, avars, lvars, nvars, mvars>>
m_rest == <<gvars, pvars, svars, dvars, cvars, fvars, wvars, kvars, qvars, ivars, avars, lvars, nvars,
            yvars>>

vars == <<gvars, pvars, svars, dvars, cvars, xvars>>

(***************************************************************************)
(* AlchemyRateLimiter                                                      *)
(***************************************************************************)
RECURSIVE SumTo(_, _)
SumTo(f, n) == IF n < 0 THEN 0 ELSE f[n] + SumTo(f, n - 1)

\* Number of requests recorded during the last second (rolling).
RollingCount == SumTo(recent, TicksPerSec - 1)

\* The budget gate refusing a cost that reaches the budget exactly.
BudgetRefusesAtLimit(used, cost) == used + cost >= monthly_budget

\* can_request, line 45: the monthly budget gate.
BudgetRefuses(used, cost) == used + cost > monthly_budget

\* can_request, line 48: has the one-second window run out?
WindowExpired(elapsed) == elapsed >= TicksPerSec

\* can_request, lines 48-50, with the counter reset forgotten.
WindowAfterCheckNoReset(elapsed, count) ==
  IF WindowExpired(elapsed) THEN [elapsed |-> 0, count |-> count]
  ELSE [elapsed |-> elapsed, count |-> count]

\* can_request, lines 47-50: the window as the rate gate leaves it.
WindowAfterCheck(elapsed, count) ==
  IF WindowExpired(elapsed) THEN [elapsed |-> 0, count |-> 0]
  ELSE [elapsed |-> elapsed, count |-> count]

\* A rate gate that admits every request.
RateAdmitsAlways(count) == TRUE

\* can_request, line 51.
RateAdmits(count) == count < max_rps

GatewayInit ==
  /\ cu_used = 0
  /\ requests_in_window = 0
  /\ window_elapsed = 0
  /\ recent = [a \in 0..(TicksPerSec - 1) |-> 0]
  /\ gpc = [p \in Callers |-> "idle"]
  /\ gcost = [p \in Callers |-> 0]
  /\ refusal = [p \in Callers |-> "none"]

\* wait_if_needed keeping the position and the cost of the call in the
\* limiter, for all callers, instead of in the calling thread.
CallShared(p, c) ==
  /\ UNCHANGED <<pvars, svars, dvars, cvars, xvars>>
  /\ gpc[p] = "idle"
  /\ gpc' = [q \in Callers |-> "check"]
  /\ gcost' = [q \in Callers |-> c]
  /\ refusal' = [refusal EXCEPT ![p] = "none"]
  /\ UNCHANGED <<cu_used, requests_in_window, window_elapsed, recent>>

\* _rpc_call / _http_call enter wait_if_needed(cu_cost).
Call(p, c) ==
  /\ UNCHANGED <<pvars, svars, dvars, cvars, xvars>>
  /\ gpc[p] = "idle"
  /\ gpc' = [gpc EXCEPT ![p] = "check"]
  /\ gcost' = [gcost EXCEPT ![p] = c]
  /\ refusal' = [refusal EXCEPT ![p] = "none"]
  /\ UNCHANGED <<cu_used, requests_in_window, window_elapsed, recent>>

\* can_request(cu_cost): one critical section (with self._lock).
CanRequest(p) ==
  /\ UNCHANGED <<pvars, svars, dvars, cvars, xvars>>
  /\ gpc[p] = "check"
  /\ IF BudgetRefuses(cu_used, gcost[p])
     THEN /\ gpc' = [gpc EXCEPT ![p] = "sleep"]
          /\ refusal' = [refusal EXCEPT ![p] = "budget"]
          /\ UNCHANGED <<requests_in_window, window_elapsed>>
     ELSE LET w == WindowAfterCheck(window_elapsed, requests_in_window) IN
          /\ window_elapsed' = w.elapsed
          /\ requests_in_window' = w.count
          /\ IF RateAdmits(w.count)
             THEN /\ gpc' = [gpc EXCEPT ![p] = "record"]
                  /\ UNCHANGED refusal
             ELSE /\ gpc' = [gpc EXCEPT ![p] = "sleep"]
                  /\ refusal' = [refusal EXCEPT ![p] = "rate"]
  /\ UNCHANGED <<cu_used, recent, gcost>>

\* wait_if_needed, line 70: time.sleep(0.05), then the loop tests again.
Sleep(p) ==
  /\ UNCHANGED <<pvars, svars, dvars, cvars, xvars>>
  /\ gpc[p] = "sleep"
  /\ gpc' = [gpc EXCEPT ![p] = "check"]
  /\ UNCHANGED <<cu_used, requests_in_window, window_elapsed, recent, gcost, refusal>>

\* record_request(cu_cost): a second critical section; wait_if_needed returns.
RecordRequestCounters(p) ==
  /\ gpc[p] = "record"
  /\ cu_used' = cu_used + gcost[p]
  /\ requests_in_window' = requests_in_window + 1
  /\ gpc' = [gpc EXCEPT ![p] = "idle"]
  /\ gcost' = [gcost EXCEPT ![p] = 0]
  /\ refusal' = [refusal EXCEPT ![p] = "none"]
  /\ UNCHANGED window_elapsed

RecordRequestStep(p) ==
  /\ RecordRequestCounters(p)
  /\ UNCHANGED recent

RecordRequest(p) ==
  /\ UNCHANGED <<pvars, svars, dvars, cvars, xvars>>
  /\ RecordRequestStep(p)

\* record_request with the request entered in the history of recent requests.
RecordRequestSeq(p) ==
  /\ UNCHANGED <<pvars, svars, dvars, cvars, xvars>>
  /\ RecordRequestCounters(p)
  /\ recent' = [recent EXCEPT ![0] = @ + 1]

\* Wall-clock time advances by one tick.
TickClock ==
  /\ window_elapsed' = IF window_elapsed < TicksPerSec THEN window_elapsed + 1
                       ELSE TicksPerSec
  /\ UNCHANGED <<cu_used, requests_in_window, gpc, gcost, refusal>>

Tick ==
  /\ UNCHANGED <<pvars, svars, dvars, cvars, xvars>>
  /\ TickClock
  /\ UNCHANGED recent

\* A tick with the history of recent requests shifted by one tick.
TickSeq ==
  /\ UNCHANGED <<pvars, svars, dvars, cvars, xvars>>
  /\ TickClock
  /\ recent' = [a \in 0..(TicksPerSec - 1) |-> IF a = 0 THEN 0 ELSE recent[a - 1]]

GatewayStep(p) ==
  \/ \E c \in Costs : Call(p, c)
  \/ CanRequest(p)
  \/ Sleep(p)
  \/ RecordRequest(p)

(***************************************************************************)
(* Block pollers: poll_bitcoin_blocks, poll_tron_blocks,                   *)
(* print_new_polygon_transfers                                             *)
(***************************************************************************)
\* What a tip request returns: None on any provider failure, else a height.
TipResults == Heights \cup {None}

\* The ascending sequence <<a, a+1, ..., b>>.
RECURSIVE Range(_, _)
Range(a, b) == IF a > b THEN <<>> ELSE <<a>> \o Range(a + 1, b)

\* The descending sequence of the members of a set of heights.
RECURSIVE Descending(_)
Descending(S) ==
  IF S = {} THEN <<>>
  ELSE LET m == CHOOSE x \in S : \A y \in S : y <= x
       IN <<m>> \o Descending(S \ {m})

\* Seeding before the loop: bitcoin line 104 (is not None), tron line 166-168,
\* polygon line 60 (truthiness: a tip of 0 leaves the cursor unset).
SeedAtStart(ch, t) ==
  IF t = None THEN None
  ELSE IF ch = "polygon" /\ t = 0 THEN None
  ELSE t

\* The tip test with the comparison widened to any difference.
TipIsNewOrDifferent(t, c) == t # c

\* Negation of bitcoin line 122, tron line 192, polygon line 79.
TipIsNew(t, c) == t > c

\* The first height of the catch-up range, with the cursor block included.
FirstNewInclusive(c) == c

\* bitcoin line 126, tron line 197, polygon line 83: range(cursor + 1, ...).
FirstNew(c) == c + 1

PollerInit(ch, conf) ==
  /\ chain = ch
  /\ configured = conf
  /\ cursor = None
  /\ ppc = "start"
  /\ tip = None
  /\ h = 0
  /\ shutdown_flag = FALSE
  /\ fetched = {}
  /\ cycle_fetched = <<>>
  /\ emitted = <<>>
  /\ seeded = None
  /\ raised = FALSE

\* A fetch function that goes on without testing the endpoint.
RequiresEndpointSkipped(conf) == TRUE
\* The fetch functions test the endpoint first (alchemy_rpc lines 226-228,
\* 262-264, polygon lines 32-34): without one they return None at once.
RequiresEndpoint(conf) == conf
\* The answers a fetch function can give, A being what the provider can
\* answer: None only when no endpoint is configured.
Answers(A) == IF RequiresEndpoint(configured) THEN A ELSE {None}

\* bitcoin lines 103-108, tron lines 165-171, polygon lines 59-65; T is the
\* set of answers of the tip request.
PollStartStep(T) ==
  /\ ppc = "start"
  /\ \E t \in T :
       /\ cursor' = SeedAtStart(chain, t)
       /\ seeded' = SeedAtStart(chain, t)
  /\ ppc' = "loop"
  /\ UNCHANGED <<chain, tip, h, shutdown_flag, fetched, cycle_fetched, emitted, raised,
                 configured>>

PollStart ==
  /\ UNCHANGED <<gvars, svars, dvars, cvars, xvars>>
  /\ PollStartStep(Answers(TipResults))

\* The loop condition fails: `while not shutdown_flag.is_set()`.
LoopStop ==
  /\ ppc = "loop"
  /\ shutdown_flag
  /\ ppc' = "stopped"
  /\ raised' = FALSE
  /\ UNCHANGED <<cursor, tip, h, cycle_fetched, seeded>>
  /\ UNCHANGED <<chain, shutdown_flag, fetched, emitted, configured>>

\* Top of a cycle, the tip request and the tests on its answer: bitcoin lines
\* 110-124, tron lines 173-194, polygon lines 67-81.
LoopFetch(T) ==
  /\ ppc = "loop"
  /\ \E t \in T :
          /\ tip' = t
          /\ cycle_fetched' = <<>>
          /\ IF t = None
             THEN /\ ppc' = "wait"
                  /\ UNCHANGED <<cursor, h, seeded>>
             ELSE IF cursor = None
             THEN /\ cursor' = t
                  /\ seeded' = t
                  /\ ppc' = "wait"
                  /\ UNCHANGED h
             ELSE IF ~TipIsNew(t, cursor)
             THEN /\ ppc' = "wait"
                  /\ UNCHANGED <<cursor, h, seeded>>
             ELSE /\ ppc' = IF chain = "polygon" THEN "range" ELSE "catchup"
                  /\ h' = FirstNew(cursor)
                  /\ UNCHANGED <<cursor, seeded>>
  /\ raised' = FALSE
  /\ UNCHANGED <<chain, shutdown_flag, fetched, emitted, configured>>

LoopTop ==
  /\ UNCHANGED <<gvars, svars, dvars, cvars, xvars>>
  /\ IF shutdown_flag THEN LoopStop ELSE LoopFetch(Answers(TipResults))

\* The catch-up loop is over (range exhausted, or the break of bitcoin line
\* 128, tron line 199): the assignment of bitcoin line 139, tron line 208.
CatchUpEnd ==
  /\ ppc = "catchup"
  /\ cursor' = tip
  /\ ppc' = "wait"
  /\ UNCHANGED <<h, fetched, cycle_fetched, emitted, raised>>
  /\ UNCHANGED <<chain, tip, shutdown_flag, seeded, configured>>

\* One iteration of the catch-up loop: bitcoin lines 129-137 and 141-142,
\* tron lines 200-206 and 210-211.  R is the set of outcomes:
\* r = "none": the fetch returned nothing (continue);
\* r = "ok":   the block was decoded, n events were handed on (a record
\*             whose exception the decoder catches itself, tron lines 85-91
\*             and the try around handle_event, is skipped inside this step);
\* r = "raise": the decoding raised after n events (except clause, line 141).
CatchUpFetch(R) ==
  /\ ppc = "catchup"
  /\ \E r \in R, n \in 0..1 :
          /\ r = "none" => n = 0
          /\ Len(emitted) + n <= MaxEvents
          /\ fetched' = fetched \cup {h}
          /\ cycle_fetched' = Append(cycle_fetched, h)
          /\ emitted' = IF n = 1 THEN Append(emitted, h) ELSE emitted
          /\ raised' = (r = "raise")
          /\ IF r = "raise"
             THEN /\ ppc' = "wait"
                  /\ UNCHANGED h
             ELSE /\ h' = h + 1
                  /\ UNCHANGED ppc
          /\ UNCHANGED cursor
  /\ UNCHANGED <<chain, tip, shutdown_flag, seeded, configured>>

BlockOutcomes == {"none", "ok", "raise"}

CatchUp ==
  /\ UNCHANGED <<gvars, svars, dvars, cvars, xvars>>
  /\ IF h > tip \/ shutdown_flag
     THEN CatchUpEnd
     ELSE CatchUpFetch(IF RequiresEndpoint(configured) THEN BlockOutcomes ELSE {"none"})

\* polygon lines 83-160: one alchemy_getAssetTransfers call for the whole
\* range (order "desc", alchemy_rpc line 171), the cursor assignment, and the
\* loop over the returned transfers.  E is the set of blocks with an event,
\* drawn from B.
PolygonRangeStep(B) ==
  /\ ppc = "range"
  /\ fetched' = fetched \cup (h..tip)
  /\ cycle_fetched' = Range(h, tip)
  /\ cursor' = tip
  /\ \E E \in B :
       /\ Len(emitted) + Cardinality(E) <= MaxEvents
       /\ emitted' = emitted \o Descending(E)
  /\ ppc' = "wait"
  /\ UNCHANGED <<chain, tip, h, shutdown_flag, seeded, raised, configured>>

PolygonRange ==
  /\ UNCHANGED <<gvars, svars, dvars, cvars, xvars>>
  /\ PolygonRangeStep(IF RequiresEndpoint(configured) THEN SUBSET (h..tip) ELSE {{}})

\* shutdown_flag.wait(timeout=POLL_INTERVAL) returns.
Wait ==
  /\ UNCHANGED <<gvars, svars, dvars, cvars, xvars>>
  /\ ppc = "wait"
  /\ ppc' = "loop"
  /\ UNCHANGED <<chain, cursor, tip, h, shutdown_flag, fetched, cycle_fetched, emitted, seeded,
                 raised, configured>>

\* The main thread sets the shutdown flag.
SetShutdown ==
  /\ UNCHANGED <<gvars, svars, dvars, cvars, xvars>>
  /\ ~shutdown_flag
  /\ shutdown_flag' = TRUE
  /\ UNCHANGED <<chain, cursor, ppc, tip, h, fetched, cycle_fetched, emitted, seeded, raised,
                 configured>>

PollerNext ==
  \/ PollStart
  \/ LoopTop
  \/ CatchUp
  \/ PolygonRange
  \/ Wait
  \/ SetShutdown

(***************************************************************************)
(* Solana poller: initialize_baseline, fetch_solana_token_transfers,       *)
(* print_new_solana_transfers                                              *)
(***************************************************************************)
MintSet == {Mints[i] : i \in 1..Len(Mints)}

Contains(L, s) == \E i \in 1..Len(L) : L[i] = s

\* Sequences without repetition over S, of length at most n.
RECURSIVE InjSeqs(_, _)
InjSeqs(S, n) ==
  IF n = 0 THEN {<<>>}
  ELSE LET shorter == InjSeqs(S, n - 1)
           longest == {q \in shorter : Len(q) = n - 1}
       IN shorter \cup {Append(q, x) : q \in longest, x \in S}

\* A page never lists a signature twice.
NoRepeat(L) == \A i, j \in 1..Len(L) : L[i] = L[j] => i = j

\* What fetch_solana_signatures(mint, limit) returns: a newest-first page of
\* distinct signatures; <<>> stands for an empty list and for None.
SigLists == {L \in InjSeqs(Sigs, MaxPage) : NoRepeat(L)}

RECURSIVE Reverse(_)
Reverse(q) == IF q = <<>> THEN <<>> ELSE Append(Reverse(Tail(q)), Head(q))

\* Lines 101-109: the entries collected before the break at last_sig
\* (`if last_sig and sig == last_sig: break`).
RECURSIVE Before(_, _)
Before(L, s) ==
  IF L = <<>> THEN <<>>
  ELSE IF s # None /\ Head(L) = s THEN <<>>
  ELSE <<Head(L)>> \o Before(Tail(L), s)

\* Lines 101-111 with the boundary signature collected as well.
NewSignaturesWithBoundary(L, s) ==
  (IF Contains(L, s) THEN <<s>> ELSE <<>>) \o Reverse(Before(L, s))

\* Lines 101-111 without the reverse().
NewSignaturesUnreversed(L, s) == Before(L, s)

\* Lines 101-111: new_signatures after the reverse(): oldest first.
NewSignatures(L, s) == Reverse(Before(L, s))

SolanaInit ==
  /\ sol_cursor = [m \in MintSet |-> None]
  /\ spc = "start"
  /\ mint_i = 1
  /\ last_sig = None
  /\ sig_infos = <<>>
  /\ new_signatures = <<>>
  /\ sig_i = 1
  /\ processed = <<>>
  /\ results = <<>>
  /\ units_after_stop = 0

\* print_new_solana_transfers lines 199-201 with initialize_baseline (lines
\* 44-80) taken as one step: each mint ends with the provider's most recent
\* signature, or unset when every attempt failed or the list was empty.
InitializeBaseline ==
  /\ UNCHANGED <<gvars, pvars, dvars, cvars, xvars>>
  /\ spc = "start"
  /\ sol_cursor' \in [MintSet -> Sigs \cup {None}]
  /\ spc' = "idle"
  /\ UNCHANGED <<mint_i, last_sig, sig_infos, new_signatures, sig_i, processed, results,
                 units_after_stop>>

\* The number of units started with the flag set, counted up to 2.
CountUnit(n) == IF shutdown_flag /\ n < 2 THEN n + 1 ELSE n

\* print_new_solana_transfers line 206 tests the flag; line 208 calls
\* fetch_solana_token_transfers (line 87: results = []).
SolCycleStart ==
  /\ UNCHANGED <<gvars, pvars, dvars, cvars, xvars>>
  /\ spc = "idle"
  /\ IF shutdown_flag
     THEN /\ spc' = "stopped"
          /\ UNCHANGED <<results, mint_i>>
     ELSE /\ results' = <<>>
          /\ mint_i' = 1
          /\ spc' = "mint"
  /\ UNCHANGED <<sol_cursor, last_sig, sig_infos, new_signatures, sig_i, processed,
                 units_after_stop>>

\* fetch_solana_token_transfers lines 89-120 for one mint; the flag is not
\* tested anywhere in that function.
FetchSignaturesFor(L) ==
  /\ LET m == Mints[mint_i]
         new == NewSignatures(L, sol_cursor[m])
     IN /\ last_sig' = sol_cursor[m]
        /\ sig_infos' = L
        /\ new_signatures' = IF L = <<>> THEN <<>> ELSE new
        /\ processed' = <<>>
        /\ sig_i' = 1
        /\ IF L = <<>>
           THEN /\ spc' = "next"
                /\ UNCHANGED sol_cursor
           ELSE IF new # <<>>
           THEN /\ sol_cursor' = [sol_cursor EXCEPT ![m] = new[Len(new)]]
                /\ spc' = "process"
           ELSE IF sol_cursor[m] = None
           THEN /\ sol_cursor' = [sol_cursor EXCEPT ![m] = L[1]]
                /\ spc' = "next"
           ELSE /\ spc' = "next"
                /\ UNCHANGED sol_cursor
  /\ units_after_stop' = CountUnit(units_after_stop)
  /\ UNCHANGED <<mint_i, results>>

\* The same for whatever page the provider returns.
FetchSignatures ==
  /\ UNCHANGED <<gvars, pvars, dvars, cvars, xvars>>
  /\ spc = "mint"
  /\ \E L \in SigLists : FetchSignaturesFor(L)

\* fetch_solana_token_transfers lines 122-186: one iteration of the loop over
\* new_signatures.  The transaction comes from parsed_cache or from
\* fetch_solana_transaction; got = FALSE: no data (continue); n: the number
\* of transfers extracted from it.
ProcessSignature ==
  /\ UNCHANGED <<gvars, pvars, dvars, cvars, xvars>>
  /\ spc = "process"
  /\ IF sig_i > Len(new_signatures)
     THEN /\ spc' = "next"
          /\ UNCHANGED <<sig_i, processed, results, units_after_stop>>
     ELSE \E got \in BOOLEAN, n \in 0..1 :
          /\ ~got => n = 0
          /\ processed' = Append(processed, new_signatures[sig_i])
          /\ results' = IF n = 1
                         THEN Append(results, <<Mints[mint_i], new_signatures[sig_i]>>)
                         ELSE results
          /\ sig_i' = sig_i + 1
          /\ units_after_stop' = CountUnit(units_after_stop)
          /\ UNCHANGED spc
  /\ UNCHANGED <<sol_cursor, mint_i, last_sig, sig_infos, new_signatures>>

\* The for loop of line 89 moves to the next mint, or the function returns.
NextMint ==
  /\ UNCHANGED <<gvars, pvars, dvars, cvars, xvars>>
  /\ spc = "next"
  /\ IF mint_i < Len(Mints)
     THEN /\ mint_i' = mint_i + 1
          /\ spc' = "mint"
     ELSE /\ spc' = "done"
          /\ UNCHANGED mint_i
  /\ UNCHANGED <<sol_cursor, last_sig, sig_infos, new_signatures, sig_i, processed, results,
                 units_after_stop>>

\* print_new_solana_transfers lines 209-288: the returned events are handed
\* on and the interval wait ends.
SolCycleEnd ==
  /\ UNCHANGED <<gvars, pvars, dvars, cvars, xvars>>
  /\ spc = "done"
  /\ spc' = "idle"
  /\ UNCHANGED <<sol_cursor, mint_i, last_sig, sig_infos, new_signatures, sig_i, processed, results,
                 units_after_stop>>

SolanaNext ==
  \/ InitializeBaseline
  \/ SolCycleStart
  \/ FetchSignatures
  \/ ProcessSignature
  \/ NextMint
  \/ SolCycleEnd

(***************************************************************************)
(* Decoders: _process_block (Bitcoin), _process_block_txinfo (Tron)        *)
(***************************************************************************)
\* Amounts, prices and USD thresholds are whole numbers of one unit.
Values == 0..MaxValue
Prices == 1..MaxPrice
Thresholds == 1..MaxUsd

\* The sequences over S of length at most n.
SeqsUpTo(S, n) == UNION {[1..k -> S] : k \in 0..n}

\* bitcoin lines 39 and 50: value_btc < threshold_btc, where threshold_btc is
\* GLOBAL_USD_THRESHOLD / btc_usd; with a positive price the quotient test
\* is the product test below.
SkipsOutput(value, price, threshold) == value * price < threshold

BitcoinDecoderInit(P, V) ==
  /\ btc_usd \in P
  /\ vout \in V
  /\ out_i = 1
  /\ btc_events = <<>>

\* _process_block lines 48-92: one iteration of the loop over the outputs.
\* An exception of handle_event is caught (lines 77-92).
ProcessOutput ==
  /\ UNCHANGED <<gvars, pvars, svars, tvars, cvars, xvars>>
  /\ out_i <= Len(vout)
  /\ btc_events' =
       IF SkipsOutput(vout[out_i], btc_usd, usd_threshold)
       THEN btc_events
       ELSE Append(btc_events, [out |-> out_i, amount |-> vout[out_i],
                                usd_value |-> vout[out_i] * btc_usd])
  /\ out_i' = out_i + 1
  /\ UNCHANGED <<usd_threshold, btc_usd, vout>>

BitcoinDecodeNext == ProcessOutput

\* tron line 55: usdt_price = TOKEN_PRICES.get("USDT", 1.0).
usdt_price == 1

TronDecoderInit(P, L, C) ==
  /\ trx_price \in P
  /\ tron_logs \in L
  /\ call_values \in C
  /\ log_i = 1
  /\ call_i = 1
  /\ tron_events = <<>>
  /\ found = 0

\* _process_block_txinfo lines 66-127: one Transfer log of a USDT contract.
\* An amount of None is a data field int(data_hex, 16) cannot parse (lines
\* 85-91: continue).
DecodeLog ==
  /\ UNCHANGED <<gvars, pvars, svars, bvars, cvars, xvars>>
  /\ log_i <= Len(tron_logs)
  /\ LET a == tron_logs[log_i]
         emits == a # None /\ ~(a * usdt_price < usd_threshold)
     IN /\ found' = IF emits THEN found + 1 ELSE found
        /\ tron_events' =
             IF emits
             THEN Append(tron_events, [kind |-> "log", idx |-> log_i,
                                       usd_value |-> a * usdt_price])
             ELSE tron_events
  /\ log_i' = log_i + 1
  /\ UNCHANGED <<trx_price, tron_logs, call_values, call_i>>

\* _process_block_txinfo lines 130-154: one callValue of the internal
\* transactions; a qualifying one is counted and printed.
DecodeCallValue ==
  /\ UNCHANGED <<gvars, pvars, svars, bvars, cvars, xvars>>
  /\ log_i > Len(tron_logs)
  /\ call_i <= Len(call_values)
  /\ LET trx_sun == call_values[call_i]
         counts == ~(trx_sun <= 0) /\ ~(trx_sun * trx_price < usd_threshold)
     IN found' = IF counts THEN found + 1 ELSE found
  /\ call_i' = call_i + 1
  /\ UNCHANGED <<trx_price, tron_logs, call_values, log_i, tron_events>>

TronDecodeNext ==
  \/ DecodeLog
  \/ DecodeCallValue

(***************************************************************************)
(* Provider Client: _rpc_call, _http_call, fetch_asset_transfers           *)
(***************************************************************************)
Fns == {"_rpc_call", "_http_call", "fetch_asset_transfers"}
Statuses == {200, 429, 500}
\* What resp.json() gives: "malformed" raises; "error" is an object with an
\* error member; "result" an object whose result member is an object (for
\* alchemy_getAssetTransfers: one with transfers); "number" an object whose
\* result member is a non-zero number; "null" an object with no result.
Bodies == {"malformed", "error", "result", "number", "null"}
Responses ==
  {[transport |-> "exception", status |-> 0, body |-> "none"]}
    \cup [transport : {"sent"}, status : Statuses, body : Bodies]
NoResponse == [transport |-> "none", status |-> 0, body |-> "none"]

\* _rpc_call lines 101-117.  "None" is Python's None.
RpcCall(r) ==
  IF r.transport = "exception" THEN "None"
  ELSE IF r.status = 429 THEN "None"
  ELSE IF r.body = "malformed" THEN "None"
  ELSE IF r.body = "error" THEN "None"
  ELSE IF r.body = "null" THEN "None"
  ELSE r.body

\* _http_call lines 123-131: the parsed body itself is returned.
HttpCall(r) ==
  IF r.transport = "exception" THEN "None"
  ELSE IF r.status = 429 THEN "None"
  ELSE IF r.body = "malformed" THEN "None"
  ELSE r.body

\* fetch_asset_transfers lines 175-178: `'transfers' in result` raises
\* TypeError when the result is a number.
FetchAssetTransfers(r) ==
  LET result == RpcCall(r)
  IN IF result = "None" THEN "None"
     ELSE IF result = "number" THEN "raise"
     ELSE result

ClientReturn(f, r) ==
  CASE f = "_rpc_call" -> RpcCall(r)
    [] f = "_http_call" -> HttpCall(r)
    [] f = "fetch_asset_transfers" -> FetchAssetTransfers(r)

ClientInit(F) ==
  /\ fn \in F
  /\ resp = NoResponse
  /\ ret = "None"

\* wait_if_needed returns (record_request) and the request is made and
\* answered: _rpc_call lines 100-117, _http_call lines 122-131.
Request ==
  /\ UNCHANGED <<pvars, svars, dvars, xvars>>
  /\ RecordRequestStep("poller")
  /\ \E r \in Responses :
       /\ resp' = r
       /\ ret' = ClientReturn(fn, r)
  /\ UNCHANGED fn

ClientNext ==
  \/ \E c \in Costs : Call("poller", c)
  \/ CanRequest("poller")
  \/ Sleep("poller")
  \/ Tick
  \/ Request

(***************************************************************************)
(* fetch_solana_transaction: the primary endpoint, then the fallback       *)
(***************************************************************************)
\* alchemy_rpc line 193, `if result:`: the primary's result is returned.
ReturnsPrimaryNever(result) == FALSE

ReturnsPrimary(result) == result # "None"

FetchTxInit(U) ==
  /\ rpc_urls \in U
  /\ ftx_pc = "idle"
  /\ ftx_calls = <<>>
  /\ ftx_ret = "None"

\* Lines 196-203 for a call that does not return the primary's result.
AfterPrimary ==
  IF rpc_urls.fallback
  THEN ftx_pc' = "fallback" /\ UNCHANGED ftx_ret
  ELSE ftx_pc' = "done" /\ ftx_ret' = "None"

\* fetch_solana_transaction is called (solana_api line 126); lines 187-188.
FetchTxBegin ==
  /\ UNCHANGED <<gvars, f_rest>>
  /\ ftx_pc \in {"idle", "done"}
  /\ ftx_calls' = <<>>
  /\ IF rpc_urls.primary
     THEN ftx_pc' = "primary" /\ ftx_ret' = "None"
     ELSE IF rpc_urls.fallback
     THEN ftx_pc' = "fallback" /\ ftx_ret' = "None"
     ELSE ftx_pc' = "done" /\ ftx_ret' = "None"
  /\ UNCHANGED rpc_urls

\* _rpc_call enters wait_if_needed: cu_cost=40 for the primary endpoint
\* (line 192), cu_cost=0 for the fallback (line 202).
FetchTxEnter ==
  /\ ftx_pc \in {"primary", "fallback"}
  /\ Call("solana", IF ftx_pc = "primary" THEN MaxCost ELSE 0)

\* Lines 189-194: the primary's _rpc_call is answered.
FetchTxPrimary ==
  /\ UNCHANGED f_rest
  /\ ftx_pc = "primary"
  /\ RecordRequestStep("solana")
  /\ \E r \in Responses :
       LET result == RpcCall(r) IN
       /\ ftx_calls' = Append(ftx_calls, <<"primary", result>>)
       /\ IF ReturnsPrimary(result)
          THEN ftx_pc' = "done" /\ ftx_ret' = result
          ELSE AfterPrimary
  /\ UNCHANGED rpc_urls

\* Lines 197-202: the fallback's _rpc_call is answered and its result returned.
FetchTxFallback ==
  /\ UNCHANGED f_rest
  /\ ftx_pc = "fallback"
  /\ RecordRequestStep("solana")
  /\ \E r \in Responses :
       /\ ftx_calls' = Append(ftx_calls, <<"fallback", RpcCall(r)>>)
       /\ ftx_ret' = RpcCall(r)
  /\ ftx_pc' = "done"
  /\ UNCHANGED rpc_urls

FetchTxNext ==
  \/ FetchTxBegin
  \/ FetchTxEnter
  \/ CanRequest("solana")
  \/ Sleep("solana")
  \/ Tick
  \/ FetchTxPrimary
  \/ FetchTxFallback

(***************************************************************************)
(* supabase_writer: _get_client, _map_event_to_whale_row,                  *)
(* store_transaction; the event loop of print_new_solana_transfers         *)
(***************************************************************************)
\* A string whose case and prefix matter is a sequence of words; a word is
\* written in upper or in lower case.
UpperWord(w) ==
  CASE w = "probable_" -> "PROBABLE_"
    [] w = "buy" -> "BUY"
    [] w = "sell" -> "SELL"
    [] w = "transfer" -> "TRANSFER"
    [] w = "unknown" -> "UNKNOWN"
    [] w = "None" -> "NONE"
    [] w = "sol" -> "SOL"
    [] OTHER -> w

\* str.upper() left out.
UpperKept(str) == str

\* str.upper()
Upper(str) == [i \in 1..Len(str) |-> UpperWord(str[i])]

\* str.startswith(w)
StartsWith(str, w) == Len(str) >= 1 /\ str[1] = w

\* str.replace(w, ''): every occurrence of w is removed.
RECURSIVE Replace(_, _)
Replace(str, w) ==
  IF str = <<>> THEN <<>>
  ELSE IF Head(str) = w THEN Replace(Tail(str), w)
  ELSE <<Head(str)>> \o Replace(Tail(str), w)

\* supabase_writer lines 76-81.
NormalizeClassification(c) ==
  LET u == Upper(c)
      v == IF StartsWith(u, "PROBABLE_") THEN Replace(u, "PROBABLE_") ELSE u
  IN IF v \in {<<"BUY">>, <<"SELL">>, <<"TRANSFER">>} THEN v ELSE <<"TRANSFER">>

\* A text of which only the length matters.
Texts(n) == UNION {[1..k -> {"r"}] : k \in 0..n}
\* text[:n]
Slice(text, n) == SubSeq(text, 1, IF Len(text) < n THEN Len(text) ELSE n)

\* classification_data: absent (None or an empty dict), or a dict.  Its
\* reasoning is a str, None or a number; its whale_score a number or None.
NoData == [given |-> FALSE, classification |-> <<>>,
           reasoning |-> [kind |-> "none", text |-> <<>>], whale_score |-> 0]
ClassificationValues ==
  {<<"BUY">>, <<"sell">>, <<"transfer">>, <<"probable_", "buy">>, <<"PROBABLE_", "SELL">>,
   <<"PROBABLE_", "PROBABLE_", "BUY">>, <<"UNKNOWN">>, <<"probable_", "unknown">>,
   <<"None">>, <<>>}
ReasoningValues ==
  {[kind |-> "str", text |-> t] : t \in Texts(ReasoningLimit + 1)}
    \cup {[kind |-> "none", text |-> <<>>], [kind |-> "int", text |-> <<>>]}
AllData ==
  {NoData} \cup [given : {TRUE}, classification : ClassificationValues,
                 reasoning : ReasoningValues, whale_score : {0, None}]
\* An event: tx_hash, symbol, timestamp (None: no usable block time) and the
\* classification the event itself carries (has_class: the key is present).
AllEvents ==
  [tx_hash : {"", "tx1"}, symbol : {<<>>, <<"sol">>}, timestamp : {None, 0, 1},
   has_class : BOOLEAN, classification : {<<"buy">>}]

\* The events and data of the behaviours that store several times.
SomeData ==
  {NoData,
   [given |-> TRUE, classification |-> <<"BUY">>,
    reasoning |-> [kind |-> "str", text |-> <<"r">>], whale_score |-> 0],
   [given |-> TRUE, classification |-> <<"probable_", "sell">>,
    reasoning |-> [kind |-> "str", text |-> <<>>], whale_score |-> None]}
SomeEvents ==
  [tx_hash : {"tx1", "tx2"}, symbol : {<<"sol">>}, timestamp : {None, 1},
   has_class : {FALSE}, classification : {<<"buy">>}]

TxHashes == {"tx1", "tx2"}
NoRow == [transaction_hash |-> "", timestamp |-> 0, token_symbol |-> <<>>,
          classification |-> <<>>, reasoning |-> <<>>]

\* Lines 51-57: the event's timestamp when it is a positive number.
HasTimestamp(e) == e.timestamp > 0

\* Lines 59-74: where classification and reasoning come from.
RawClassification(e, cd) ==
  IF cd.given THEN cd.classification
  ELSE IF e.has_class THEN e.classification
  ELSE <<"TRANSFER">>
RawReasoning(e, cd) ==
  IF cd.given THEN cd.reasoning ELSE [kind |-> "str", text |-> <<>>]

\* _map_event_to_whale_row raises: float(None) (line 124), or a slice of a
\* number (line 130).
MappingRaises(e, cd) ==
  \/ cd.given /\ cd.whale_score = None
  \/ RawReasoning(e, cd).kind = "int"

\* _map_event_to_whale_row lines 48-134, called at time t.
MapEventToWhaleRow(e, cd, t) ==
  [transaction_hash |-> e.tx_hash,
   timestamp |-> IF HasTimestamp(e) THEN e.timestamp ELSE t,
   token_symbol |-> Upper(e.symbol),
   classification |-> NormalizeClassification(RawClassification(e, cd)),
   reasoning |-> IF RawReasoning(e, cd).kind = "str"
                 THEN Slice(RawReasoning(e, cd).text, ReasoningLimit)
                 ELSE <<>>]

\* insert(row): what the call of line 168 would do without on_conflict.
Insert(T, row) == T \cup {row}

\* upsert(row, on_conflict='transaction_hash'), line 168.
Upsert(T, row) ==
  {r \in T : r.transaction_hash # row.transaction_hash} \cup {row}

\* What execute() does: the row is written and returned ("data"), nothing
\* is written and no row returned ("empty"), or the call raises.
UpsertOutcomes == {"data", "empty", "raise"}

\* store_transaction lines 137-181 (with _get_client, lines 21-35), called
\* at time t.  created: create_client succeeds when the client is unset.
StoreOutcome(e, cd, t, created, outcome) ==
  LET ready == client = "ready" \/ created
      row == MapEventToWhaleRow(e, cd, t)
      why == IF ~ready THEN "client"
             ELSE IF MappingRaises(e, cd) THEN "mapping"
             ELSE IF row.transaction_hash = "" THEN "no_hash"
             ELSE IF row.token_symbol = <<>> THEN "no_symbol"
             ELSE IF outcome = "raise" THEN "upsert"
             ELSE IF outcome = "empty" THEN "no_data"
             ELSE "stored"
  IN [ret |-> IF why = "stored" THEN "True" ELSE "False", why |-> why,
      ready |-> ready, row |-> row]

NotCalled == [ret |-> "none", why |-> "none"]

SinkInit(T) ==
  /\ rows = {}
  /\ client = "unset"
  /\ now = 0
  /\ transfers \in T
  /\ ev_i = 1
  /\ store_out = NotCalled
  /\ last_ok = [x \in TxHashes |-> NoRow]

\* The loop of line 211 stops at the first store call that returns False.
NextEventStopsOnFailure(i, out) ==
  IF out.ret = "False" THEN Len(transfers) + 1 ELSE i + 1

\* The loop of line 211 goes on with the next event whatever the iteration
\* did (lines 220-221, 264-278).
NextEvent(i, out) == i + 1

\* print_new_solana_transfers lines 211-278: one iteration.  stores = FALSE:
\* the event is below the threshold, is not enriched, or its processing
\* raises before line 264.
HandleEvent ==
  /\ UNCHANGED w_rest
  /\ ev_i <= Len(transfers)
  /\ \E t \in now..MaxNow, stores \in BOOLEAN, created \in BOOLEAN,
        outcome \in UpsertOutcomes :
       LET e == transfers[ev_i].event
           cd == transfers[ev_i].data
           o == StoreOutcome(e, cd, t, created, outcome)
           out == IF stores THEN [ret |-> o.ret, why |-> o.why] ELSE NotCalled
       IN /\ now' = t
          /\ store_out' = out
          /\ client' = IF stores /\ o.ready THEN "ready" ELSE client
          /\ rows' = IF stores /\ o.why = "stored" THEN Upsert(rows, o.row) ELSE rows
          /\ last_ok' = IF stores /\ o.why = "stored"
                        THEN [last_ok EXCEPT ![o.row.transaction_hash] = o.row]
                        ELSE last_ok
          /\ ev_i' = NextEvent(ev_i, out)
  /\ UNCHANGED transfers

SinkNext == HandleEvent

(***************************************************************************)
(* print_new_solana_transfers: backoff of the interval wait                *)
(***************************************************************************)
\* solana_api line 203.
poll_interval == 60
\* solana_api line 283: min(backoff_multiplier * 2, 8).
backoff_cap == 8

\* What str(e) of an exception that reaches line 280 holds.
ExceptionTexts == {"429", "rate", "other"}

\* The provider answered a request of the cycle with status 429.
Saw429(rs) == \E i \in 1..Len(rs) : rs[i].transport = "sent" /\ rs[i].status = 429

\* fetch_solana_token_transfers can raise only while it handles the data of
\* a mint whose signature request gave a result (lines 101-184); a request
\* that _rpc_call answers with None makes the loop continue (lines 98-99).
CanRaise(rs) == \E i \in 1..Len(rs) : RpcCall(rs[i]) # "None"

\* Lines 281-283.
IsRateLimitText(text) == text \in {"429", "rate"}
Doubled(m) == IF m * 2 < backoff_cap THEN m * 2 ELSE backoff_cap

BackoffInit ==
  /\ backoff_multiplier = 1
  /\ bpc = "cycle"
  /\ cycle_resps = <<>>
  /\ cycle_exc = "none"
  /\ wait_timeout = 0

\* Lines 207-286: one cycle.  Every request is answered through _rpc_call,
\* which returns None for a status 429 and for every exception (alchemy_rpc
\* lines 108-117); exc = "none": the try body ends (line 209 resets the
\* multiplier), otherwise an exception with that text reaches line 280.
PollCycle ==
  /\ UNCHANGED k_rest
  /\ bpc = "cycle"
  /\ \E rs \in [1..Len(Mints) -> Responses], exc \in ExceptionTexts \cup {"none"} :
       /\ exc # "none" => CanRaise(rs)
       /\ cycle_resps' = rs
       /\ cycle_exc' = exc
       /\ backoff_multiplier' =
            IF exc = "none" THEN 1
            ELSE IF IsRateLimitText(exc) THEN Doubled(backoff_multiplier)
            ELSE backoff_multiplier
  /\ bpc' = "wait"
  /\ UNCHANGED wait_timeout

\* Line 288: _shutdown_flag.wait(timeout=poll_interval * backoff_multiplier).
IntervalWait ==
  /\ UNCHANGED k_rest
  /\ bpc = "wait"
  /\ wait_timeout' = poll_interval * backoff_multiplier
  /\ bpc' = "cycle"
  /\ UNCHANGED <<backoff_multiplier, cycle_resps, cycle_exc>>

BackoffNext ==
  \/ PollCycle
  \/ IntervalWait

(***************************************************************************)
(* parsed_cache: the lookup of fetch_solana_token_transfers                *)
(***************************************************************************)
\* The newest items are deleted instead of the oldest.
EvictNewest(items) ==
  IF Len(items) > PARSED_CACHE_MAX THEN SubSeq(items, 1, PARSED_CACHE_MAX) ELSE items

\* solana_api lines 130-133: the items left after the oldest
\* len(parsed_cache) - PARSED_CACHE_MAX keys are deleted.
EvictOldest(items) ==
  IF Len(items) > PARSED_CACHE_MAX
  THEN SubSeq(items, Len(items) - PARSED_CACHE_MAX + 1, Len(items))
  ELSE items

\* list(d.keys())
Keys(items) == [k \in 1..Len(items) |-> items[k][1]]
\* The keys of `before` that are no longer keys of `after`, in order.
Removed(before, after) == SelectSeq(Keys(before), LAMBDA k : ~Contains(Keys(after), k))

\* What fetch_solana_transaction returns: None, or a transaction.
TxData == {"None", "result", "number"}

CacheInit ==
  /\ parsed_cache = <<>>
  /\ cache_sig = None
  /\ cache_inserted = FALSE
  /\ cache_evicted = <<>>

\* Lines 123-133 for one signature of new_signatures: a hit, a miss whose
\* fetch gives no data (continue), or a miss whose data is inserted.
CacheLookup ==
  /\ UNCHANGED q_rest
  /\ \E sig \in Sigs, tx_data \in TxData :
       /\ cache_sig' = sig
       /\ IF Contains(Keys(parsed_cache), sig) \/ tx_data = "None"
          THEN /\ UNCHANGED parsed_cache
               /\ cache_inserted' = FALSE
               /\ cache_evicted' = <<>>
          ELSE LET inserted == Append(parsed_cache, <<sig, tx_data>>) IN
               /\ parsed_cache' = EvictOldest(inserted)
               /\ cache_inserted' = TRUE
               /\ cache_evicted' = Removed(inserted, EvictOldest(inserted))

CacheNext == CacheLookup

(***************************************************************************)
(* initialize_baseline, attempt by attempt                                 *)
(***************************************************************************)
\* solana_api line 49.
max_attempts == 3

BaselineInit ==
  /\ bl_pc = "fetch"
  /\ attempt = 1
  /\ pending = Mints
  /\ still_pending = <<>>
  /\ bl_i = 1
  /\ bl_fetches = [m \in MintSet |-> 0]
  /\ bl_assigned = {}

\* fetch_solana_signatures has an endpoint (alchemy_rpc lines 208-212).
HasSignatureEndpoint == rpc_urls.primary \/ rpc_urls.fallback

\* fetch_solana_signatures calls _rpc_call, which enters wait_if_needed with
\* cu_cost 40 for the primary endpoint and 0 for the fallback (line 216).
BaselineEnter ==
  /\ bl_pc = "fetch"
  /\ HasSignatureEndpoint
  /\ Call("solana", IF rpc_urls.primary THEN MaxCost ELSE 0)

\* Lines 54-68 for the mint pending[bl_i], and lines 70-76 after the last
\* mint of the attempt.  kind: "list" (a list whose first entry holds the
\* signature sig), "None" (the request failed, or the fetch raised: lines
\* 65-67), "other" (an empty list).
BaselineAnswer(kinds) ==
  /\ bl_pc = "fetch"
  /\ \E kind \in kinds, sig \in Sigs :
       LET m == pending[bl_i]
           still == IF kind = "None" THEN Append(still_pending, m) ELSE still_pending
       IN /\ bl_fetches' = [bl_fetches EXCEPT ![m] = @ + 1]
          /\ sol_cursor' = CASE kind = "list" -> [sol_cursor EXCEPT ![m] = sig]
                             [] kind = "other" -> [sol_cursor EXCEPT ![m] = None]
                             [] kind = "None" -> sol_cursor
          /\ bl_assigned' = IF kind = "None" THEN bl_assigned ELSE bl_assigned \cup {m}
          /\ IF bl_i < Len(pending)
             THEN /\ bl_i' = bl_i + 1
                  /\ still_pending' = still
                  /\ UNCHANGED <<bl_pc, attempt, pending>>
             ELSE /\ pending' = still
                  /\ still_pending' = <<>>
                  /\ bl_i' = 1
                  /\ IF still # <<>> /\ attempt < max_attempts
                     THEN attempt' = attempt + 1 /\ UNCHANGED bl_pc
                     ELSE bl_pc' = "final" /\ UNCHANGED attempt
  /\ UNCHANGED <<spc, mint_i, last_sig, sig_infos, new_signatures, sig_i, processed, results,
                 units_after_stop>>

\* The request is made (wait_if_needed has returned) and answered.
BaselineFetch ==
  /\ UNCHANGED i_rest
  /\ RecordRequestStep("solana")
  /\ BaselineAnswer({"list", "None", "other"})

\* Without an endpoint fetch_solana_signatures returns None at once.
BaselineFetchNoEndpoint ==
  /\ UNCHANGED <<gvars, i_rest>>
  /\ ~HasSignatureEndpoint
  /\ BaselineAnswer({"None"})

\* Lines 78-80: the mints still pending get an unset cursor.
BaselineFinish ==
  /\ UNCHANGED <<gvars, i_rest>>
  /\ bl_pc = "final"
  /\ sol_cursor' = [m \in MintSet |-> IF Contains(pending, m) THEN None ELSE sol_cursor[m]]
  /\ bl_assigned' = bl_assigned \cup {pending[k] : k \in 1..Len(pending)}
  /\ bl_pc' = "done"
  /\ UNCHANGED <<attempt, pending, still_pending, bl_i, bl_fetches>>
  /\ UNCHANGED <<spc, mint_i, last_sig, sig_infos, new_signatures, sig_i, processed, results,
                 units_after_stop>>

BaselineNext ==
  \/ BaselineEnter
  \/ CanRequest("solana")
  \/ Sleep("solana")
  \/ Tick
  \/ BaselineFetch
  \/ BaselineFetchNoEndpoint
  \/ BaselineFinish

\* The Solana thread keeps running and time advances.
BaselineFairness ==
  /\ WF_vars(BaselineEnter) /\ WF_vars(CanRequest("solana")) /\ WF_vars(Sleep("solana"))
  /\ WF_vars(Tick)
  /\ WF_vars(BaselineFetch) /\ WF_vars(BaselineFetchNoEndpoint) /\ WF_vars(BaselineFinish)

(***************************************************************************)
(* One caller calling wait_if_needed back to back                          *)
(***************************************************************************)
\* The number of calls whose admissions are timed: 5 for 2 requests per
\* second.
BackToBack == 2 * max_rps + 1

PaceInit ==
  /\ admissions = 0
  /\ since_first = 0

\* The caller calls wait_if_needed again as soon as it has returned; the
\* cost is one the budget gate admits at any time.
PaceCall ==
  /\ Call("poller", 0)

\* record_request: the call is admitted.
PaceRecord ==
  /\ UNCHANGED a_rest
  /\ RecordRequestStep("poller")
  /\ admissions' = IF admissions < BackToBack THEN admissions + 1 ELSE admissions
  /\ UNCHANGED since_first

\* A tick; the time since the first admission runs until the last counted
\* admission, and is counted up to two seconds.
PaceTick ==
  /\ UNCHANGED a_rest
  /\ TickClock
  /\ UNCHANGED recent
  /\ since_first' = IF /\ admissions > 0 /\ admissions < BackToBack
                       /\ since_first < 2 * TicksPerSec
                    THEN since_first + 1 ELSE since_first
  /\ UNCHANGED admissions

PaceNext ==
  \/ PaceCall
  \/ CanRequest("poller")
  \/ Sleep("poller")
  \/ PaceRecord
  \/ PaceTick

(***************************************************************************)
(* AlchemyRateLimiter with self._lock and the statements of record_request *)
(* taken one at a time, followed by the request of _rpc_call               *)
(***************************************************************************)
\* threading.Lock(): acquire returns only when nobody holds the lock.
LockIgnored(l) == TRUE
LockFree(l) == l = "free"

\* Leaving a `with self._lock:` block without releasing the lock.
StillHeld(p) == p
\* Leaving a `with self._lock:` block releases the lock.
Released(p) == "free"

\* record_request, line 55: self.cu_used += cu_cost, on the value read.
AddedCost(used, cost) == used + cost

\* Outcomes of requests.post and the parsing of its answer, lines 101-117.
RequestOutcomes == {"ok", "failed"}

\* What the threads of this part leave alone.
LockFrame == UNCHANGED <<recent, gpc, refusal, l_rest>>

LockInit ==
  /\ lock = "free"
  /\ lpc = [p \in Callers |-> "idle"]
  /\ reg = [p \in Callers |-> 0]
  /\ returned_cost = 0
  /\ req_result = [p \in Callers |-> "none"]

\* _rpc_call calls wait_if_needed(cu_cost); the loop of line 69 calls
\* can_request, which waits for the lock.
WaitIfNeeded(p, c) ==
  /\ LockFrame
  /\ lpc[p] = "idle"
  /\ lpc' = [lpc EXCEPT ![p] = "lock_check"]
  /\ gcost' = [gcost EXCEPT ![p] = c]
  /\ req_result' = [req_result EXCEPT ![p] = "none"]
  /\ UNCHANGED <<cu_used, requests_in_window, window_elapsed, lock, reg, returned_cost>>

\* `with self._lock:` of line 44 or line 54 is entered.
AcquireLock(p) ==
  /\ LockFrame
  /\ lpc[p] \in {"lock_check", "lock_record"}
  /\ LockFree(lock)
  /\ lock' = p
  /\ lpc' = [lpc EXCEPT ![p] = IF lpc[p] = "lock_check" THEN "in_check" ELSE "read"]
  /\ UNCHANGED <<cu_used, requests_in_window, window_elapsed, gcost, reg, returned_cost,
                 req_result>>

\* The body of can_request, lines 45-51, and the end of its with block.
CanRequestLocked(p) ==
  /\ LockFrame
  /\ lpc[p] = "in_check"
  /\ lock' = Released(p)
  /\ IF BudgetRefuses(cu_used, gcost[p])
     THEN /\ lpc' = [lpc EXCEPT ![p] = "sleep"]
          /\ UNCHANGED <<requests_in_window, window_elapsed>>
     ELSE LET w == WindowAfterCheck(window_elapsed, requests_in_window) IN
          /\ window_elapsed' = w.elapsed
          /\ requests_in_window' = w.count
          /\ lpc' = [lpc EXCEPT ![p] = IF RateAdmits(w.count) THEN "lock_record" ELSE "sleep"]
  /\ UNCHANGED <<cu_used, gcost, reg, returned_cost, req_result>>

\* time.sleep(0.05) of line 70 is over; can_request is called again.
SleepOver(p) ==
  /\ LockFrame
  /\ lpc[p] = "sleep"
  /\ lpc' = [lpc EXCEPT ![p] = "lock_check"]
  /\ UNCHANGED <<cu_used, requests_in_window, window_elapsed, gcost, lock, reg, returned_cost,
                 req_result>>

\* record_request, line 55: self.cu_used is read.
RecordRead(p) ==
  /\ LockFrame
  /\ lpc[p] = "read"
  /\ reg' = [reg EXCEPT ![p] = cu_used]
  /\ lpc' = [lpc EXCEPT ![p] = "write"]
  /\ UNCHANGED <<cu_used, requests_in_window, window_elapsed, gcost, lock, returned_cost,
                 req_result>>

\* record_request, lines 55-56: the sum is stored, the in-window counter is
\* incremented, the with block ends and wait_if_needed returns.
RecordWrite(p) ==
  /\ LockFrame
  /\ lpc[p] = "write"
  /\ cu_used' = AddedCost(reg[p], gcost[p])
  /\ requests_in_window' = requests_in_window + 1
  /\ returned_cost' = returned_cost + gcost[p]
  /\ lock' = Released(p)
  /\ reg' = [reg EXCEPT ![p] = 0]
  /\ lpc' = [lpc EXCEPT ![p] = "request"]
  /\ UNCHANGED <<window_elapsed, gcost, req_result>>

\* _rpc_call, lines 101-117: the request is made and succeeds or fails.
PostRequest(p) ==
  /\ LockFrame
  /\ lpc[p] = "request"
  /\ \E o \in RequestOutcomes : req_result' = [req_result EXCEPT ![p] = o]
  /\ lpc' = [lpc EXCEPT ![p] = "idle"]
  /\ UNCHANGED <<cu_used, requests_in_window, window_elapsed, gcost, lock, reg, returned_cost>>

\* The clock of the limiter advances by one tick.
LockTick ==
  /\ LockFrame
  /\ window_elapsed' = IF window_elapsed < TicksPerSec THEN window_elapsed + 1
                       ELSE TicksPerSec
  /\ UNCHANGED <<cu_used, requests_in_window, gcost, lvars>>

\* A step of thread p.
LockStep(p) ==
  \/ \E c \in Costs : WaitIfNeeded(p, c)
  \/ AcquireLock(p)
  \/ CanRequestLocked(p)
  \/ SleepOver(p)
  \/ RecordRead(p)
  \/ RecordWrite(p)
  \/ PostRequest(p)

LockNext ==
  \/ \E p \in Callers, c \in Costs : WaitIfNeeded(p, c)
  \/ \E p \in Callers : AcquireLock(p)
  \/ \E p \in Callers : CanRequestLocked(p)
  \/ \E p \in Callers : SleepOver(p)
  \/ \E p \in Callers : RecordRead(p)
  \/ \E p \in Callers : RecordWrite(p)
  \/ \E p \in Callers : PostRequest(p)
  \/ LockTick

(***************************************************************************)
(* The block pollers with the failed fetches recorded                      *)
(***************************************************************************)
FailedInit == failed = {}

\* What the steps below leave alone.
FailedFrame == UNCHANGED <<gvars, svars, dvars, cvars, n_rest>>

\* The heights whose last fetch failed, after a fetch of the heights H.
FailedAfter(H, ok) == IF ok THEN failed \ H ELSE failed \cup H

\* One iteration of the catch-up loop of the Bitcoin and Tron pollers
\* (CatchUp) with its outcome recorded: fetch_bitcoin_blockhash or
\* fetch_bitcoin_block returned nothing (bitcoin lines 129-134),
\* fetch_tron_block_txinfo returned None (tron lines 200-202).
CatchUpRecorded ==
  /\ FailedFrame
  /\ IF h > tip \/ shutdown_flag
     THEN CatchUpEnd /\ UNCHANGED failed
     ELSE \E r \in BlockOutcomes :
            /\ CatchUpFetch({r})
            /\ failed' = FailedAfter({h}, r # "none")

\* The range request of the Polygon poller (PolygonRange) with its outcome
\* recorded: fetch_asset_transfers returns None when the discovery call
\* failed (alchemy_rpc lines 175-178), and polygon line 94 follows.
PolygonRangeRecorded ==
  /\ FailedFrame
  /\ \E ok \in BOOLEAN :
       /\ PolygonRangeStep(IF ok THEN SUBSET (h..tip) ELSE {{}})
       /\ failed' = FailedAfter(h..tip, ok)

FailureNext ==
  \/ PollStart
  \/ LoopTop
  \/ CatchUpRecorded
  \/ PolygonRangeRecorded
  \/ Wait
  \/ SetShutdown

(***************************************************************************)
(* The Solana poller against a provider whose signature history only grows *)
(***************************************************************************)
\* The provider knows the signatures 1..sig_top[mint] of a mint, a higher
\* number being a newer signature; the history outgrows a page by one.
MaxHistory == PageLimit + 1

HistoryInit ==
  /\ sig_top = [m \in MintSet |-> 0]
  /\ seen = [m \in MintSet |-> {}]

\* getSignaturesForAddress with limit=n on a history 1..t: the newest n
\* signatures, newest first (fetch_solana_signatures, alchemy_rpc lines
\* 213-217).
RECURSIVE Page(_, _)
Page(t, n) == IF t = 0 \/ n = 0 THEN <<>> ELSE <<t>> \o Page(t - 1, n - 1)

\* A new transaction of mint m appears at the provider.  The poller reads
\* the history only in the requests of lines 57 and 97, so a transaction is
\* taken to appear just before the next of them.
HistoryGrow ==
  /\ UNCHANGED <<svars, y_rest>>
  /\ spc \in {"start", "mint"}
  /\ \E m \in MintSet :
       /\ sig_top[m] < MaxHistory
       /\ sig_top' = [sig_top EXCEPT ![m] = @ + 1]
  /\ UNCHANGED seen

\* initialize_baseline, lines 44-80: each mint's cursor becomes the newest
\* signature (limit=1, line 59), or None when the list is empty or every
\* attempt failed (lines 64, 80).
HistoryBaseline ==
  /\ UNCHANGED <<yvars, y_rest>>
  /\ spc = "start"
  /\ sol_cursor' \in [MintSet -> (0..MaxHistory) \cup {None}]
  /\ \A m \in MintSet :
       \/ sol_cursor'[m] = None
       \/ Page(sig_top[m], 1) = <<sol_cursor'[m]>>
  /\ spc' = "idle"
  /\ UNCHANGED <<mint_i, last_sig, sig_infos, new_signatures, sig_i, processed, results,
                 units_after_stop>>

\* Lines 94-120 for one mint: the page of the provider, or nothing when the
\* request failed.
HistoryFetch ==
  /\ UNCHANGED <<yvars, y_rest>>
  /\ spc = "mint"
  /\ \E L \in {Page(sig_top[Mints[mint_i]], PageLimit), <<>>} : FetchSignaturesFor(L)

\* How one iteration of the loop of line 122 can end: no transaction data
\* (line 128), n transfers extracted, or an exception that no try of the
\* function catches (tx_data.get of line 135 on data that is not a dict,
\* entry.get of line 138 on a page entry that is not a dict, int(block_time)
\* of line 180).
SignatureOutcomes == {"continue", "extracted", "raise"}

\* Lines 122-186: one iteration of the loop over new_signatures.  An
\* exception leaves fetch_solana_token_transfers and its local results and
\* reaches line 280 of print_new_solana_transfers.  The transactions of one
\* cycle hold at most MaxEvents transfers.
ProcessRecorded ==
  /\ UNCHANGED y_rest
  /\ spc = "process"
  /\ IF sig_i > Len(new_signatures)
     THEN /\ spc' = "next"
          /\ UNCHANGED <<sig_i, processed, results, units_after_stop, seen>>
     ELSE \E o \in SignatureOutcomes, n \in 0..1 :
          /\ o # "extracted" => n = 0
          /\ Len(results) + n <= MaxEvents
          /\ processed' = Append(processed, new_signatures[sig_i])
          /\ seen' = [seen EXCEPT ![Mints[mint_i]] = @ \cup {new_signatures[sig_i]}]
          /\ results' = IF n = 1
                         THEN Append(results, <<Mints[mint_i], new_signatures[sig_i]>>)
                         ELSE results
          /\ sig_i' = sig_i + 1
          /\ units_after_stop' = CountUnit(units_after_stop)
          /\ spc' = IF o = "raise" THEN "raised" ELSE spc
  /\ UNCHANGED <<sol_cursor, mint_i, last_sig, sig_infos, new_signatures, sig_top>>

\* Lines 280-288: the except clause of print_new_solana_transfers and the
\* interval wait; the loop of line 211 was not reached.
CycleRaised ==
  /\ UNCHANGED <<yvars, y_rest>>
  /\ spc = "raised"
  /\ spc' = "idle"
  /\ UNCHANGED <<sol_cursor, mint_i, last_sig, sig_infos, new_signatures, sig_i, processed, results,
                 units_after_stop>>

HistoryNext ==
  \/ HistoryGrow
  \/ HistoryBaseline
  \/ SolCycleStart
  \/ HistoryFetch
  \/ ProcessRecorded
  \/ NextMint
  \/ SolCycleEnd
  \/ CycleRaised

(***************************************************************************)
(* _map_event_to_whale_row: the address columns                            *)
(***************************************************************************)
\* str.lower() on the addresses used here.
Lower(a) ==
  CASE a = "0xFA" -> "0xfa"
    [] a = "0xTB" -> "0xtb"
    [] a = "0xWW" -> "0xww"
    [] OTHER -> a

\* The events: their from and to address ('' when the key is missing) and
\* the classification they carry themselves.
AddressEvents ==
  [from : {"", "0xFA"}, to : {"", "0xTB"}, has_class : BOOLEAN,
   classification : {<<"buy">>, <<"SELL">>}]
\* classification_data: None, or a payload with a classification and a
\* whale_address ('' when the key is missing).
NoAddressData == [given |-> FALSE, classification |-> <<>>, whale_address |-> ""]
AddressData ==
  {NoAddressData}
    \cup [given : {TRUE}, classification : ClassificationValues, whale_address : {"", "0xWW"}]
NoCall == [event |-> [from |-> "", to |-> "", has_class |-> FALSE, classification |-> <<"buy">>],
           data |-> NoAddressData]

\* Lines 87-94: whale_address before the fallback.
SuppliedWhaleAddress(cd) == IF cd.given THEN cd.whale_address ELSE ""

\* Lines 101-109: whale_address and counterparty_address after the fallback
\* (`if not whale_address:`), for the normalised classification c.
WhaleAddress(e, cd, c) ==
  IF SuppliedWhaleAddress(cd) # "" THEN SuppliedWhaleAddress(cd)
  ELSE IF c = <<"BUY">> THEN e.to
  ELSE e.from
CounterpartyAddress(e, cd, c) ==
  IF SuppliedWhaleAddress(cd) # "" THEN ""
  ELSE IF c = <<"BUY">> THEN e.from
  ELSE IF c = <<"SELL">> THEN e.to
  ELSE ""

\* Lines 76-129: the classification and the address columns of the row.
AddressColumns(e, cd) ==
  LET c == NormalizeClassification(RawClassification(e, cd)) IN
  [classification |-> c,
   whale_address |-> Lower(WhaleAddress(e, cd, c)),
   counterparty_address |-> Lower(CounterpartyAddress(e, cd, c)),
   from_address |-> Lower(e.from),
   to_address |-> Lower(e.to)]

AddressInit(I) ==
  /\ addr_in \in I
  /\ addr_row = <<>>

AddressIdle == AddressInit({NoCall})

\* _map_event_to_whale_row(event, classification_data) is called.
MapAddresses ==
  /\ UNCHANGED m_rest
  /\ addr_row = <<>>
  /\ addr_row' = AddressColumns(addr_in.event, addr_in.data)
  /\ UNCHANGED addr_in

AddressNext == MapAddresses

(***************************************************************************)
(* Specifications                                                          *)
(***************************************************************************)
FetchTxIdle == FetchTxInit({[primary |-> TRUE, fallback |-> TRUE]})
SinkIdle == SinkInit({<<>>})
HelpersIdle ==
  /\ FetchTxIdle
  /\ SinkIdle
  /\ BackoffInit
  /\ CacheInit
  /\ BaselineInit
  /\ PaceInit
  /\ LockInit
  /\ FailedInit
  /\ HistoryInit
  /\ AddressIdle

PollerIdle == PollerInit("bitcoin", TRUE)
DecodersIdle ==
  /\ usd_threshold = 1
  /\ BitcoinDecoderInit({1}, {<<>>})
  /\ TronDecoderInit({1}, {<<>>}, {<<>>})
ClientIdle == ClientInit({"_rpc_call"})

SolanaSpecInit ==
  /\ GatewayInit
  /\ PollerIdle
  /\ SolanaInit
  /\ DecodersIdle
  /\ ClientIdle
  /\ HelpersIdle

SolanaSpec == SolanaSpecInit /\ [][SolanaNext]_vars

\* The Solana poller with the main thread setting the shutdown flag.
SolanaStopNext ==
  \/ SolanaNext
  \/ SetShutdown

SolanaStopSpec == SolanaSpecInit /\ [][SolanaStopNext]_vars

PollerSpecInit ==
  /\ GatewayInit
  /\ \E ch \in Chains, conf \in BOOLEAN : PollerInit(ch, conf)
  /\ SolanaInit
  /\ DecodersIdle
  /\ ClientIdle
  /\ HelpersIdle

PollerSpec == PollerSpecInit /\ [][PollerNext]_vars

(***************************************************************************)
(* A block poller whose requests go through the Gateway                    *)
(***************************************************************************)
\* cu_cost of the poller's requests (10, 20, 120 in the source).
FetchCost == MaxCost
\* What a tip request of this poller returns.
GatedTips == (0..MaxGatedTip) \cup {None}

\* The poller is at a call of a fetch function.
AboutToFetch ==
  \/ ppc = "start"
  \/ ppc = "loop" /\ ~shutdown_flag
  \/ ppc = "catchup" /\ h <= tip /\ ~shutdown_flag
  \/ ppc = "range"

\* The fetch function has an endpoint and calls _rpc_call / _http_call,
\* which enters wait_if_needed.
GatedCall ==
  /\ RequiresEndpoint(configured)
  /\ AboutToFetch
  /\ Call("poller", FetchCost)

\* The poller is not inside a fetch function.
NotCalling == gpc["poller"] = "idle" /\ UNCHANGED gvars

\* Each action below is the poller's step with the same name; where the step
\* makes a request, wait_if_needed returns first (record_request).  The two
\* requests of one Bitcoin height (getblockhash, getblock) are taken as one.
GatedPollStart ==
  /\ UNCHANGED <<svars, dvars, cvars, xvars>>
  /\ IF RequiresEndpoint(configured)
     THEN RecordRequestStep("poller") /\ PollStartStep(GatedTips)
     ELSE NotCalling /\ PollStartStep({None})

GatedLoopTop ==
  /\ UNCHANGED <<svars, dvars, cvars, xvars>>
  /\ \/ NotCalling /\ LoopStop
     \/ /\ RequiresEndpoint(configured)
        /\ RecordRequestStep("poller")
        /\ LoopFetch(GatedTips)
     \/ /\ ~RequiresEndpoint(configured)
        /\ ~shutdown_flag
        /\ NotCalling
        /\ LoopFetch({None})

GatedCatchUp ==
  /\ UNCHANGED <<svars, dvars, cvars, xvars>>
  /\ \/ NotCalling /\ (h > tip \/ shutdown_flag) /\ CatchUpEnd
     \/ /\ RequiresEndpoint(configured)
        /\ RecordRequestStep("poller")
        /\ CatchUpFetch(BlockOutcomes)
     \/ /\ ~RequiresEndpoint(configured)
        /\ ~(h > tip \/ shutdown_flag)
        /\ NotCalling
        /\ CatchUpFetch({"none"})

GatedPolygonRange ==
  /\ UNCHANGED <<svars, dvars, cvars, xvars>>
  /\ IF RequiresEndpoint(configured)
     THEN RecordRequestStep("poller") /\ PolygonRangeStep(SUBSET (h..tip))
     ELSE NotCalling /\ PolygonRangeStep({{}})

\* The budget no longer covers a request of the poller.
BudgetExhausted == BudgetRefuses(cu_used, FetchCost)

\* Someone outside the pollers resets the used-cost counter of the shared
\* limiter (get_rate_limiter().cu_used = 0) once the budget is exhausted.
ExternalReset ==
  /\ UNCHANGED <<pvars, svars, dvars, cvars, xvars>>
  /\ BudgetExhausted
  /\ cu_used' = 0
  /\ UNCHANGED <<requests_in_window, window_elapsed, recent, gpc, gcost, refusal>>

GatedNext ==
  \/ GatedCall
  \/ CanRequest("poller")
  \/ Sleep("poller")
  \/ Tick
  \/ GatedPollStart
  \/ GatedLoopTop
  \/ GatedCatchUp
  \/ GatedPolygonRange
  \/ Wait
  \/ SetShutdown
  \/ ExternalReset

\* The poller thread keeps running and time advances; setting the flag and
\* resetting the counter are left to the outside.
GatedFairness ==
  /\ WF_vars(GatedCall) /\ WF_vars(CanRequest("poller")) /\ WF_vars(Sleep("poller"))
  /\ WF_vars(Tick)
  /\ WF_vars(GatedPollStart) /\ WF_vars(GatedLoopTop) /\ WF_vars(GatedCatchUp)
  /\ WF_vars(GatedPolygonRange) /\ WF_vars(Wait)

GatedSpec == PollerSpecInit /\ [][GatedNext]_vars /\ GatedFairness

Init ==
  /\ GatewayInit
  /\ PollerIdle
  /\ SolanaInit
  /\ DecodersIdle
  /\ ClientIdle
  /\ HelpersIdle

BitcoinDecodeInit ==
  /\ GatewayInit
  /\ PollerIdle
  /\ SolanaInit
  /\ usd_threshold \in Thresholds
  /\ BitcoinDecoderInit(Prices, SeqsUpTo(Values, MaxOuts))
  /\ TronDecoderInit({1}, {<<>>}, {<<>>})
  /\ ClientIdle
  /\ HelpersIdle

BitcoinDecodeSpec == BitcoinDecodeInit /\ [][BitcoinDecodeNext]_vars

TronDecodeInit ==
  /\ GatewayInit
  /\ PollerIdle
  /\ SolanaInit
  /\ usd_threshold \in Thresholds
  /\ BitcoinDecoderInit({1}, {<<>>})
  /\ TronDecoderInit(Prices, SeqsUpTo(Values \cup {None}, MaxLogs),
                     SeqsUpTo(Values, MaxOuts))
  /\ ClientIdle
  /\ HelpersIdle

TronDecodeSpec == TronDecodeInit /\ [][TronDecodeNext]_vars

ClientInitAll ==
  /\ GatewayInit
  /\ PollerIdle
  /\ SolanaInit
  /\ DecodersIdle
  /\ ClientInit(Fns)
  /\ HelpersIdle

ClientSpec == ClientInitAll /\ [][ClientNext]_vars

Next ==
  \/ \E p \in Callers : GatewayStep(p)
  \/ Tick

Spec == Init /\ [][Next]_vars

\* One caller only: calls reach the Gateway one after the other; the
\* requests of the last second are recorded.
NextSeq ==
  \/ \E c \in Costs : Call("poller", c)
  \/ CanRequest("poller")
  \/ Sleep("poller")
  \/ RecordRequestSeq("poller")
  \/ TickSeq

SpecSeq == Init /\ [][NextSeq]_vars

\* Thread scheduling: a caller inside wait_if_needed keeps running (its next
\* step is eventually taken) and time advances.  Entering wait_if_needed is
\* the caller's choice and has no fairness.
GatewayFairness ==
  /\ WF_vars(Tick)
  /\ \A p \in Callers :
        WF_vars(CanRequest(p)) /\ WF_vars(Sleep(p)) /\ WF_vars(RecordRequest(p))

FairSpec == Init /\ [][Next]_vars /\ GatewayFairness

FetchTxSpecInit ==
  /\ GatewayInit
  /\ PollerIdle
  /\ SolanaInit
  /\ DecodersIdle
  /\ ClientIdle
  /\ FetchTxInit([primary : BOOLEAN, fallback : BOOLEAN])
  /\ SinkIdle
  /\ BackoffInit
  /\ CacheInit
  /\ BaselineInit
  /\ PaceInit
  /\ LockInit
  /\ FailedInit
  /\ HistoryInit
  /\ AddressIdle

FetchTxSpec == FetchTxSpecInit /\ [][FetchTxNext]_vars

\* A cycle whose events are stored one after the other.
SinkSpecInit ==
  /\ GatewayInit
  /\ PollerIdle
  /\ SolanaInit
  /\ DecodersIdle
  /\ ClientIdle
  /\ FetchTxIdle
  /\ SinkInit(SeqsUpTo([event : SomeEvents, data : SomeData], MaxTransfers))
  /\ BackoffInit
  /\ CacheInit
  /\ BaselineInit
  /\ PaceInit
  /\ LockInit
  /\ FailedInit
  /\ HistoryInit
  /\ AddressIdle

SinkSpec == SinkSpecInit /\ [][SinkNext]_vars

\* A cycle of one event, for every event and every classification_data.
MapSpecInit ==
  /\ GatewayInit
  /\ PollerIdle
  /\ SolanaInit
  /\ DecodersIdle
  /\ ClientIdle
  /\ FetchTxIdle
  /\ SinkInit({<<x>> : x \in [event : AllEvents, data : AllData]})
  /\ BackoffInit
  /\ CacheInit
  /\ BaselineInit
  /\ PaceInit
  /\ LockInit
  /\ FailedInit
  /\ HistoryInit
  /\ AddressIdle

MapSpec == MapSpecInit /\ [][SinkNext]_vars

BackoffSpec == Init /\ [][BackoffNext]_vars

CacheSpec == Init /\ [][CacheNext]_vars

PaceSpec == Init /\ [][PaceNext]_vars

\* Two threads calling _rpc_call, the lock of the limiter made explicit.
LockSpec == Init /\ [][LockNext]_vars

\* The Solana poller against a growing signature history.
HistorySpec == Init /\ [][HistoryNext]_vars

\* One call of _map_event_to_whale_row, for every event and every
\* classification_data.
AddressSpecInit ==
  /\ GatewayInit
  /\ PollerIdle
  /\ SolanaInit
  /\ DecodersIdle
  /\ ClientIdle
  /\ FetchTxIdle
  /\ SinkIdle
  /\ BackoffInit
  /\ CacheInit
  /\ BaselineInit
  /\ PaceInit
  /\ LockInit
  /\ FailedInit
  /\ HistoryInit
  /\ AddressInit([event : AddressEvents, data : AddressData])

AddressSpec == AddressSpecInit /\ [][AddressNext]_vars

\* A block poller with an endpoint, the failed fetches recorded.
FailureSpecInit ==
  /\ GatewayInit
  /\ \E ch \in Chains : PollerInit(ch, TRUE)
  /\ SolanaInit
  /\ DecodersIdle
  /\ ClientIdle
  /\ HelpersIdle

FailureSpec == FailureSpecInit /\ [][FailureNext]_vars

\* Two poller threads side by side: the Bitcoin poller with its requests
\* going through the Gateway, and the Solana thread in initialize_baseline.
BlockThread ==
  \/ GatedCall
  \/ CanRequest("poller")
  \/ Sleep("poller")
  \/ GatedPollStart
  \/ GatedLoopTop
  \/ GatedCatchUp
  \/ Wait

SolanaThread ==
  \/ BaselineEnter
  \/ CanRequest("solana")
  \/ Sleep("solana")
  \/ BaselineFetch
  \/ BaselineFinish

PairNext ==
  \/ GatedCall
  \/ CanRequest("poller")
  \/ Sleep("poller")
  \/ GatedPollStart
  \/ GatedLoopTop
  \/ GatedCatchUp
  \/ Wait
  \/ BaselineEnter
  \/ CanRequest("solana")
  \/ Sleep("solana")
  \/ BaselineFetch
  \/ BaselineFinish
  \/ Tick
  \/ SetShutdown

PairSpec == Init /\ [][PairNext]_vars

\* initialize_baseline with its requests going through the Gateway, for
\* every combination of configured endpoints.
BaselineSpec == FetchTxSpecInit /\ [][BaselineNext]_vars /\ BaselineFairness

(***************************************************************************)
(* Claims about the Gateway                                                *)
(***************************************************************************)
InAcquire(p) == gpc[p] \in {"check", "sleep"}
Covers(p) == cu_used + gcost[p] <= monthly_budget
OthersIdle(p) == \A q \in Callers \ {p} : gpc[q] = "idle"

\* C1: cu_used never exceeds monthly_budget, for any number of concurrent
\* callers of wait_if_needed and any interleaving.
C1_BudgetNeverExceeded == cu_used <= monthly_budget

\* C2: the number of calls admitted within any rolling one-second interval
\* never exceeds max_rps.
C2_RollingCeiling == RollingCount <= max_rps

\* C3: the number of requests recorded between two window resets never
\* exceeds max_rps, for any interleaving of concurrent callers.
C3_WindowCeiling == requests_in_window <= max_rps

\* C4: a call refused by the budget gate terminates and reports failure; it
\* does not go on waiting inside wait_if_needed.
C4_BudgetRefusalFails ==
  \A p \in Callers : refusal[p] = "budget" => gpc[p] \notin {"sleep", "check"}

\* C5 (as stated): when the remaining budget covers the cost, every call to
\* acquire is eventually admitted, also when other pollers keep calling.
C5_EventuallyAdmitted ==
  \A p \in Callers : (InAcquire(p) /\ Covers(p)) ~> (gpc[p] = "record")

\* C5 (amended): a caller inside acquire is eventually admitted once the
\* other pollers stop calling acquire, unless the budget no longer covers
\* its cost.
C5_AdmittedOnceUncontended ==
  \A p \in Callers :
    (<>[]OthersIdle(p)) => ((InAcquire(p) /\ Covers(p)) ~> (gpc[p] = "record" \/ ~Covers(p)))

\* C5 witness: a caller that the rate gate had refused retried and was
\* admitted after the window reset, the other caller being idle.
C5_Witness ==
  \E p \in Callers :
    /\ gpc[p] = "record" /\ refusal[p] = "rate"
    /\ requests_in_window = 0 /\ OthersIdle(p)

(***************************************************************************)
(* Claims about the block pollers                                          *)
(***************************************************************************)
\* C6: once the cursor is set it never decreases (nor becomes unset), for
\* every sequence of tips; a tip at or below the cursor leaves it unchanged.
C6_CursorMonotone ==
  [][cursor # None => (cursor' # None /\ cursor' >= cursor)]_vars

\* C6 witness: the provider reported a tip below the cursor and the cycle
\* ended with the cursor kept.
C6_Witness ==
  /\ ppc = "wait" /\ cursor # None /\ tip # None
  /\ tip < cursor /\ cycle_fetched = <<>>

\* C7: in the Bitcoin and Tron pollers, whenever the cursor advances from c
\* to t, every height c+1..t was requested, in ascending order, before.
C7_NoHeightJumped ==
  [][(chain \in {"bitcoin", "tron"} /\ cursor # None /\ cursor' # cursor)
       => cycle_fetched = Range(cursor + 1, cursor')]_vars

\* C8: the cycle that seeds an unset cursor fetches no block and emits no
\* event, and no block at or below the seeded height is fetched afterwards.
C8_SeedNeverBackfills ==
  /\ [](seeded # None => \A x \in fetched : x > seeded)
  /\ [](cursor = None => (fetched = {} /\ emitted = <<>>))
  /\ [][(cursor = None /\ cursor' # None)
          => (fetched' = {} /\ emitted' = <<>> /\ ppc' \in {"loop", "wait"})]_vars

\* C8 witness: after seeding, a later cycle fetched blocks above the seed.
C8_Witness ==
  /\ seeded # None /\ fetched # {} /\ emitted # <<>>
  /\ cursor # None /\ cursor > seeded

(***************************************************************************)
(* Claims about the Solana poller                                          *)
(***************************************************************************)
\* C9: when a mint's cursor is unset at the start of a poll cycle, the cycle
\* only seeds the cursor: no transaction of the returned list is fetched and
\* no event is produced for that mint.
C9_UnsetCursorOnlySeeds ==
  (spc \in {"process", "next"} /\ last_sig = None)
     => (processed = <<>> /\ \A i \in 1..Len(results) : results[i][1] # Mints[mint_i])

C11_EmittedInBlockOrder ==
  \A i, j \in 1..Len(emitted) : i < j => emitted[i] <= emitted[j]

\* C12: in the Bitcoin and Tron pollers no block height is decoded and
\* emitted more than once, whatever the provider returns and whether or not
\* a decode raises part-way through a catch-up range.
C12_NoHeightEmittedTwice ==
  chain \in {"bitcoin", "tron"}
     => \A i, j \in 1..Len(emitted) : i < j => emitted[i] # emitted[j]

\* C13: in the Bitcoin and Tron pollers a cycle in which a decode exception
\* was raised still processes the remaining blocks of the catch-up range
\* (the last height requested is the tip) and ends with the cursor at the tip.
C13_DecodeExceptionSkipsOneRecord ==
  (chain \in {"bitcoin", "tron"} /\ raised /\ ppc = "wait")
     => (cursor = tip /\ cycle_fetched[Len(cycle_fetched)] = tip)

(***************************************************************************)
(* Claims about the decoders and the Provider Client                       *)
(***************************************************************************)
\* C14: a Bitcoin output produces an event if and only if value x price is
\* strictly greater than the USD threshold (an output worth exactly the
\* threshold produces none).
C14_EventIffStrictlyAbove ==
  \A k \in 1..(out_i - 1) :
    (\E e \in 1..Len(btc_events) : btc_events[e].out = k)
       <=> (vout[k] * btc_usd > usd_threshold)

\* C15: once a Tron transaction info is decoded, every positive call value
\* of its internal transactions whose USD value passes the threshold test
\* has been handed to handle_event, whatever its Transfer logs.
C15_NativeTransfersEmitted ==
  (log_i > Len(tron_logs) /\ call_i > Len(call_values))
     => \A k \in 1..Len(call_values) :
          (call_values[k] > 0 /\ call_values[k] * trx_price >= usd_threshold)
             => \E e \in 1..Len(tron_events) :
                   tron_events[e].kind = "native" /\ tron_events[e].idx = k

\* The failures of a request: a transport exception, a status outside 2xx,
\* a body that is not JSON, a provider error member.
FailedResponse(r) ==
  \/ r.transport = "exception"
  \/ r.status \notin 200..299
  \/ r.body \in {"malformed", "error"}

\* C16: a Provider Client call never raises, and returns None for a status
\* outside 2xx, a malformed body, a provider error member and a transport
\* exception.
C16_ClientReturnsNoneOnFailure ==
  resp # NoResponse
     => (ret # "raise" /\ (FailedResponse(resp) => ret = "None"))

(***************************************************************************)
(* Claims about shutdown, budget exhaustion and missing endpoints          *)
(***************************************************************************)
\* C18: after the shutdown flag is set a poller finishes at most the unit
\* (signature or mint) it is working on and starts no further unit: at most
\* one unit is started with the flag set.
C18_NoFurtherUnitAfterShutdown ==
  units_after_stop <= 1

\* C17: once the shutdown flag is set the poller eventually stops (its
\* polling function returns), whatever state it and the Gateway are in.
C17_ShutdownLeadsToStopped ==
  shutdown_flag ~> (ppc = "stopped")

\* C19: with the budget exhausted a poller at the top of a cycle still
\* completes the cycle: it reaches its interval wait (or is shut down).
C19_CyclesCompleteWhenExhausted ==
  (BudgetExhausted /\ ppc = "loop" /\ ~shutdown_flag) ~> (ppc = "wait" \/ shutdown_flag)

\* C20: without an endpoint the poller never enters the Gateway (cu_used and
\* the in-window counter stay as constructed), its cursor stays unset, it
\* fetches and emits nothing, no exception reaches its except clause, and it
\* stops only when the shutdown flag is set.
C20_NoEndpointIdles ==
  ~configured
     => /\ gpc["poller"] = "idle" /\ cu_used = 0 /\ requests_in_window = 0
        /\ cursor = None /\ fetched = {} /\ emitted = <<>>
        /\ ~raised
        /\ ppc \in {"start", "loop", "wait", "stopped"}
        /\ (ppc = "stopped" => shutdown_flag)

\* C20 witness: a poller without endpoint went through a cycle, got no tip
\* and is in its interval wait while time has passed.
C20_Witness ==
  /\ ~configured /\ ppc = "wait" /\ tip = None /\ cursor = None
  /\ window_elapsed = TicksPerSec /\ chain = "polygon"

(***************************************************************************)
(* Claims about fetch_solana_transaction                                   *)
(***************************************************************************)
\* C29: within one call of fetch_solana_transaction the fallback endpoint is
\* called only after the primary endpoint was tried in that call and gave no
\* result, or when no primary endpoint is configured; once the primary has
\* returned a result the fallback is not called.
C29_FallbackOnlyAfterPrimaryFailed ==
  \A i \in 1..Len(ftx_calls) :
     /\ ftx_calls[i][1] = "fallback"
          => \/ i = 1 /\ ~rpc_urls.primary
             \/ i = 2 /\ ftx_calls[1] = <<"primary", "None">>
     /\ (ftx_calls[i][1] = "primary" /\ ftx_calls[i][2] # "None")
          => /\ i = Len(ftx_calls)
             /\ (ftx_pc = "done" /\ ftx_ret = ftx_calls[i][2])

\* C29 witness: the primary gave no result and the fallback was called and
\* returned a transaction.
C29_Witness ==
  /\ ftx_pc = "done"
  /\ ftx_calls = <<<<"primary", "None">>, <<"fallback", "result">>>>
  /\ ftx_ret = "result"

(***************************************************************************)
(* Claims about the sink                                                   *)
(***************************************************************************)
OneRowPerHash ==
  \A r1, r2 \in rows : r1.transaction_hash = r2.transaction_hash => r1 = r2
ReflectsLatestStore ==
  \A x \in TxHashes :
     IF last_ok[x] = NoRow
     THEN \A r \in rows : r.transaction_hash # x
     ELSE last_ok[x] \in rows
\* This step stores, with success, the event the iteration before stored
\* with success.
StoresSameEventAgain ==
  /\ ev_i > 1 /\ ev_i <= Len(transfers)
  /\ transfers[ev_i] = transfers[ev_i - 1]
  /\ store_out.ret = "True"
  /\ store_out'.ret = "True" /\ ev_i' = ev_i + 1

\* C22 as stated: the table holds at most one row per transaction hash, that
\* row is the one of the latest store call that returned True, and storing
\* the same event a second time leaves the table as it was.
C22_UpsertIdempotent ==
  /\ [](OneRowPerHash /\ ReflectsLatestStore)
  /\ [][StoresSameEventAgain => rows' = rows]_vars

\* C22, amended: the table holds at most one row per transaction hash, that
\* row is the one of the latest store call that returned True, and storing
\* the same event a second time leaves the table as it was when the event
\* carries a positive numeric timestamp (without one the row's timestamp is
\* the time of the call).
C22_UpsertIdempotentWithTimestamp ==
  /\ [](OneRowPerHash /\ ReflectsLatestStore)
  /\ [][(StoresSameEventAgain /\ HasTimestamp(transfers[ev_i].event)) => rows' = rows]_vars

\* C22 witness: an event with a timestamp was handled twice, the second call
\* returned True and the table holds its one row.
C22_Witness ==
  /\ ev_i = 3 /\ transfers[1] = transfers[2]
  /\ HasTimestamp(transfers[1].event) /\ transfers[1].data.given
  /\ store_out.ret = "True"
  /\ rows = {MapEventToWhaleRow(transfers[1].event, transfers[1].data, 0)}

\* C23: store_transaction never raises; with no client, a mapping error or a
\* failed upsert it returns False; a call that returns False leaves the rows
\* as they were, and the loop of the Solana poller goes on with the next
\* event of the cycle.
C23_StoreFailureIsContained ==
  /\ [](/\ store_out.ret \in {"True", "False", "none"}
        /\ (store_out.why \in {"client", "mapping", "upsert"} => store_out.ret = "False"))
  /\ [][(store_out'.ret = "False" /\ ev_i' # ev_i)
           => (rows' = rows /\ ev_i' = ev_i + 1)]_vars

\* C23 witness: the first event of a cycle was stored, the store call of the
\* second raised in the mapping and returned False, and the row is still there.
C23_Witness ==
  /\ Len(transfers) = 2 /\ ev_i = 3
  /\ store_out = [ret |-> "False", why |-> "mapping"]
  /\ rows # {} /\ \A r \in rows : r.transaction_hash = transfers[1].event.tx_hash

\* The classification a raw value stands for: BUY, SELL or TRANSFER in any
\* case, with or without the prefix PROBABLE_; TRANSFER for the values that
\* name none of the three.
Expected(raw) ==
  CASE raw \in {<<"BUY">>, <<"buy">>, <<"probable_", "buy">>} -> {<<"BUY">>}
    [] raw \in {<<"sell">>, <<"PROBABLE_", "SELL">>, <<"probable_", "sell">>} -> {<<"SELL">>}
    [] raw \in {<<"transfer">>, <<"TRANSFER">>, <<"UNKNOWN">>, <<"probable_", "unknown">>,
                <<"None">>, <<>>} -> {<<"TRANSFER">>}
    [] OTHER -> {<<"BUY">>, <<"SELL">>, <<"TRANSFER">>}

\* C30: every row of the table has a classification among BUY, SELL and
\* TRANSFER (the prefix PROBABLE_ stripped, lower case upper-cased, any other
\* value replaced by TRANSFER) and a reasoning of at most ReasoningLimit
\* characters, for every event and classification_data.
C30_RowsAreNormalised ==
  /\ \A r \in rows :
        /\ r.classification \in {<<"BUY">>, <<"SELL">>, <<"TRANSFER">>}
        /\ Len(r.reasoning) <= ReasoningLimit
  /\ store_out.ret = "True"
       => LET e == transfers[ev_i - 1].event
              cd == transfers[ev_i - 1].data
          IN \E r \in rows :
                /\ r.transaction_hash = e.tx_hash
                /\ r.classification \in Expected(RawClassification(e, cd))

\* C30 witness: a payload with classification PROBABLE_SELL and a reasoning
\* longer than the limit was stored as SELL with the reasoning cut.
C30_Witness ==
  /\ ev_i = 2 /\ store_out.ret = "True"
  /\ transfers[1].data.given
  /\ transfers[1].data.classification = <<"PROBABLE_", "SELL">>
  /\ Len(transfers[1].data.reasoning.text) = ReasoningLimit + 1
  /\ \E r \in rows : r.classification = <<"SELL">> /\ Len(r.reasoning) = ReasoningLimit

(***************************************************************************)
(* Claims about the backoff of the Solana poller                           *)
(***************************************************************************)
\* The step is a poll cycle.
IsPollCycle == bpc = "cycle" /\ bpc' = "wait"

\* C24: a cycle in which the provider answered a request with status 429
\* doubles the backoff multiplier (up to the cap), and the interval wait
\* that follows uses the doubled multiplier.
C24_Http429DoublesBackoff ==
  [][(IsPollCycle /\ Saw429(cycle_resps'))
        => backoff_multiplier' = Doubled(backoff_multiplier)]_vars

\* C25: the multiplier is always one of 1, 2, 4, 8; a cycle with a
\* rate-limit failure (a 429 answer, or an exception that says so) doubles
\* it up to the cap 8; a cycle that fails otherwise leaves it unchanged; the
\* wait after a cycle without failure uses 1.
C25_BackoffLadder ==
  /\ [](backoff_multiplier \in {1, 2, 4, 8})
  /\ [][IsPollCycle =>
          IF Saw429(cycle_resps') \/ IsRateLimitText(cycle_exc')
          THEN backoff_multiplier' = Doubled(backoff_multiplier)
          ELSE IF cycle_exc' # "none"
          THEN backoff_multiplier' = backoff_multiplier
          ELSE backoff_multiplier' = 1]_vars

(***************************************************************************)
(* Claims about parsed_cache and initialize_baseline                       *)
(***************************************************************************)
\* C27: parsed_cache never holds more than PARSED_CACHE_MAX entries, and a
\* step that inserts puts one new key at the end and removes, when the limit
\* is exceeded, exactly the oldest keys: what is left is the newest
\* PARSED_CACHE_MAX entries, the inserted one among them.
C27_CacheBoundedOldestEvicted ==
  /\ [](Len(parsed_cache) <= PARSED_CACHE_MAX)
  /\ [][IF cache_inserted'
        THEN LET all == Append(Keys(parsed_cache), cache_sig')
                 k == Len(all) - Len(parsed_cache')
             IN /\ ~Contains(Keys(parsed_cache), cache_sig')
                /\ k >= 0
                /\ Keys(parsed_cache') = SubSeq(all, k + 1, Len(all))
                /\ cache_evicted' = SubSeq(all, 1, k)
                /\ k > 0 => Len(parsed_cache') = PARSED_CACHE_MAX
        ELSE parsed_cache' = parsed_cache]_vars

\* C27 witness: an insertion into the full cache deleted the oldest key and
\* kept the inserted one.
C27_Witness ==
  /\ cache_inserted
  /\ Len(parsed_cache) = PARSED_CACHE_MAX
  /\ Len(cache_evicted) = 1
  /\ parsed_cache[Len(parsed_cache)][1] = cache_sig

\* Safety of initialize_baseline: at most max_attempts fetches per mint, no
\* fetch for a mint whose cursor entry was written, every mint has its entry
\* on return.
BaselineSafety ==
  /\ \A m \in MintSet : bl_fetches[m] <= max_attempts
  /\ bl_pc = "fetch" => pending[bl_i] \notin bl_assigned
  /\ bl_pc = "done" => (bl_assigned = MintSet /\ \A m \in MintSet : sol_cursor[m] \in Sigs \cup {None})

\* C28: initialize_baseline always terminates, makes at most three signature
\* fetches per mint, never fetches again for a mint that got an answer, and
\* on return every active mint has a cursor entry.
C28_BaselineTerminates ==
  /\ []BaselineSafety
  /\ <>(bl_pc = "done")

(***************************************************************************)
(* Claims about the pace of back-to-back calls                             *)
(***************************************************************************)
\* C26: with at most max_rps requests per second and a budget that covers
\* them, 2 * max_rps + 1 back-to-back calls of one caller (5 calls for 2
\* requests per second) take at least 2 seconds from the first admission to
\* the last, whenever the first call arrives.
C26_BackToBackTakesTwoSeconds ==
  admissions = BackToBack => since_first >= 2 * TicksPerSec

(***************************************************************************)
(* Claims about the isolation of the pollers                               *)
(***************************************************************************)
\* What belongs to the block poller alone, and to the Solana thread alone.
BlockOwn ==
  <<chain, cursor, ppc, tip, h, fetched, cycle_fetched, emitted, seeded, raised, configured,
    gpc["poller"], gcost["poller"], refusal["poller"]>>
SolanaOwn ==
  <<svars, ivars, qvars, kvars, gpc["solana"], gcost["solana"], refusal["solana"]>>
\* What belongs to neither poller, the counters of the Gateway apart.
NeitherOwn == <<shutdown_flag, recent, dvars, cvars, fvars, wvars, avars>>
\* A step of the block poller, and a step of the Solana thread.
BlockStep == ppc' # ppc \/ gpc'["poller"] # gpc["poller"]
SolanaStep == bl_pc' # bl_pc \/ gpc'["solana"] # gpc["solana"]

Checked(p) == gpc[p] = "check" /\ gpc'[p] # "check"
\* The counters of the limiter.
Counters == <<cu_used, requests_in_window, window_elapsed>>

\* C31: a refusal by the budget gate consumes nothing (cu_used, the in-window
\* counter and the window start are as before); a call whose cost brings
\* cu_used exactly to monthly_budget is not refused by the budget gate; and
\* while a caller refused for cost c is still refused, every request of cost
\* >= c is refused by the budget gate too.
C31_BudgetRefusalConsumesNothing ==
  [][\A p \in Callers : Checked(p) =>
       /\ cu_used + gcost[p] > monthly_budget =>
            /\ gpc'[p] = "sleep" /\ refusal'[p] = "budget"
            /\ UNCHANGED Counters
       /\ cu_used + gcost[p] = monthly_budget =>
            /\ refusal'[p] # "budget"
            /\ gpc'[p] = "record" <=>
                 RateAdmits(WindowAfterCheck(window_elapsed, requests_in_window).count)
       /\ (\E q \in Callers : refusal[q] = "budget" /\ gcost[q] <= gcost[p]) =>
            /\ gpc'[p] = "sleep" /\ refusal'[p] = "budget"
            /\ UNCHANGED Counters]_vars

\* C31 witness: a call was admitted at cu_used + cost = monthly_budget, and
\* both callers have since been refused by the budget gate.
C31_Witness ==
  /\ cu_used = monthly_budget
  /\ \A p \in Callers : refusal[p] = "budget" /\ gpc[p] = "sleep" /\ gcost[p] > 0

\* The window is full and has not run out: the rate gate refuses.
WindowFull == ~WindowExpired(window_elapsed) /\ requests_in_window >= max_rps

\* C33: while fetch_solana_transaction is at its fallback call (cu_cost=0)
\* cu_used does not change; the call goes through the per-second gate all the
\* same: its can_request makes it wait when the window is full, and when
\* wait_if_needed returns the in-window counter has grown by one.
C33_FallbackFreeButPaced ==
  [][ftx_pc = "fallback" =>
       /\ cu_used' = cu_used
       /\ gpc["solana"] # "idle" => gcost["solana"] = 0
       /\ (Checked("solana") /\ WindowFull) =>
             gpc'["solana"] = "sleep" /\ refusal'["solana"] = "rate"
       /\ ftx_pc' = "done" =>
             /\ gpc["solana"] = "record" /\ gpc'["solana"] = "idle"
             /\ requests_in_window' = requests_in_window + 1]_vars

\* C33 witness: the fallback call was held back by the rate gate, the window
\* being full of the primary call made just before, and was admitted after
\* the window had run out; the budget has been used by primary calls only.
C33_Witness ==
  /\ ftx_pc = "fallback" /\ gpc["solana"] = "record"
  /\ refusal["solana"] = "rate"
  /\ Len(ftx_calls) = 1 /\ ftx_calls[1][1] = "primary"
  /\ cu_used > 0

\* Thread p returns from wait_if_needed in this step.
Returns(p) == lpc[p] = "write" /\ lpc'[p] = "request"

\* C32: cu_used changes only when record_request stores it, never decreases,
\* and always equals the sum of the costs of the calls of wait_if_needed
\* that returned, for every interleaving of the threads; the request that
\* follows, whether it succeeds or fails, leaves it as it is.
C32_NoLostUpdate ==
  /\ [](cu_used = returned_cost)
  /\ [][/\ cu_used' >= cu_used
        /\ cu_used' # cu_used => \E p \in Callers : Returns(p)
        /\ \A p \in Callers : lpc[p] = "request" /\ lpc'[p] = "idle" => cu_used' = cu_used]_vars

\* C32 witness: both threads were between reading and storing cu_used one
\* after the other (one waited for the lock meanwhile), both calls returned
\* with a cost, and one request failed and the other succeeded.
C32_Witness ==
  /\ cu_used = 2 * MaxCost
  /\ \A p \in Callers : lpc[p] = "idle"
  /\ \E p, q \in Callers : req_result[p] = "failed" /\ req_result[q] = "ok"

\* Thread p holds the lock only inside can_request or record_request.
InSection(p) == lpc[p] \in {"in_check", "read", "write"}
\* Thread p is waiting for admission or for the answer to its request.
Waiting(p) == lpc[p] \in {"sleep", "request"}
\* Thread p is at a `with self._lock:`.
AtLock(p) == lpc[p] \in {"lock_check", "lock_record"}

\* C39: the lock is held only by a thread inside can_request or
\* record_request, never by one that sleeps or makes its request; a thread at
\* the lock gets it whenever the other thread is not inside one of the two
\* sections, so a sleeping thread never keeps another from being checked or
\* recorded; and as long as a thread is inside _rpc_call some thread can take
\* a step.
C39_LockNeverBlocks ==
  /\ \A p \in Callers : lock = p => InSection(p)
  /\ \A p \in Callers : InSection(p) => lock = p
  /\ \A p \in Callers :
       (AtLock(p) /\ \A q \in Callers \ {p} : ~InSection(q)) => ENABLED AcquireLock(p)
  /\ \A p, q \in Callers :
       (Waiting(p) /\ AtLock(q)) => ENABLED AcquireLock(q)
  /\ (\E p \in Callers : lpc[p] # "idle") => \E p \in Callers : ENABLED LockStep(p)

\* C39 witness: one thread sleeps after a refusal while the other, having
\* been checked meanwhile, holds the lock inside record_request.
C39_Witness ==
  \E p, q \in Callers :
    /\ lpc[p] = "sleep"
    /\ lpc[q] = "write" /\ lock = q

(***************************************************************************)
(* Claims about failed fetches                                             *)
(***************************************************************************)
\* The elements of a sequence.
Elems(q) == {q[i] : i \in 1..Len(q)}
\* A height is requested in this step.
Fetches == cycle_fetched' # cycle_fetched /\ cycle_fetched' # <<>>
\* The fetch of this step fails.
FetchFails == Fetches /\ failed' # failed /\ failed \subseteq failed'
\* A cycle in which a fetch failed ends in this step.
CycleWithFailureEnds ==
  /\ ppc = "catchup" /\ ppc' = "wait"
  /\ Elems(cycle_fetched') \cap failed' # {}

\* C34: in the Bitcoin and Tron pollers a failed fetch of a block during
\* catch-up is followed by the next height in the same cycle, the cycle still
\* ends with the cursor at the tip, and a height whose fetch failed is never
\* requested again.
C34_FailedHeightSkippedForGood ==
  [][(chain = "bitcoin" \/ chain = "tron") =>
       /\ FetchFails => (ppc' = "catchup" /\ h' = h + 1)
       /\ CycleWithFailureEnds => (cursor' = tip)
       /\ Fetches => (h \notin failed)]_vars

\* C35: in the Polygon poller the cursor never lies at or above a height
\* whose last discovery call failed: it advances over a range only when the
\* call for it returned successfully, and a failed range stays ahead of the
\* cursor to be queried again.
C35_FailedRangeNotSkipped ==
  (chain = "polygon" /\ cursor # None) => \A x \in failed : x > cursor

(***************************************************************************)
(* Claims about the Solana cycle against a growing history                 *)
(***************************************************************************)
\* C36: when a Solana cycle ends by an exception, no transfer extracted from
\* the signatures a cursor was advanced over in that cycle is lost: what was
\* collected reaches the loop of line 211, so nothing was collected.
C36_ExtractedTransfersReturned ==
  spc = "raised" => results = <<>>

\* A signature is processed in this step.
Processes == processed' # processed /\ processed' # <<>>

\* C37: against a provider whose newest-first history only grows, no
\* signature of a mint is processed twice, whether the cursor is still in the
\* returned page or has dropped out of it.
C37_NoSignatureProcessedTwice ==
  [][Processes => processed'[Len(processed')] \notin seen[Mints[mint_i]]]_vars

\* C37 witness: the cursor was not in the page any more (the history had
\* outgrown the page since the cursor was set), the whole page was processed
\* and the cursor is the newest signature.
C37_Witness ==
  /\ spc = "next" /\ last_sig # None
  /\ ~Contains(sig_infos, last_sig)
  /\ Len(sig_infos) = PageLimit /\ Len(processed) = PageLimit
  /\ sol_cursor[Mints[mint_i]] = sig_infos[1]
  /\ last_sig \in seen[Mints[mint_i]]

(***************************************************************************)
(* Claims about the address columns                                        *)
(***************************************************************************)
\* The call has returned and classification_data supplied no whale address.
FallbackTaken == addr_row # <<>> /\ SuppliedWhaleAddress(addr_in.data) = ""

\* C38: when the classification payload supplies no whale address, the row's
\* whale address is the event's from address for a BUY and the event's to
\* address for a SELL.
C38_WhaleAddressFallback ==
  FallbackTaken =>
    /\ addr_row.classification = <<"BUY">> =>
          addr_row.whale_address = Lower(addr_in.event.from)
    /\ addr_row.classification = <<"SELL">> =>
          addr_row.whale_address = Lower(addr_in.event.to)

====
